---- MODULE Spec2Model ----
(***************************************************************************)
(* Azure IoT Hub MQTT client of the MXChip demo (src/src/azure_iot_mqtt.cpp *)
(* and its caller src/src/main.cpp) as a state machine.                     *)
(*                                                                          *)
(* The program variables are the file-scope statics of azure_iot_mqtt.cpp.  *)
(* The transport (PubSubClient over WiFiClientSecure), the clock and the    *)
(* hub are the environment: their answers are drawn with \E.                *)
(* C strings are sequences of one-character strings, so that strstr,        *)
(* strncmp and atoi are computed character by character as in the code.     *)
(***************************************************************************)
EXTENDS Integers, Sequences, FiniteSets, TLC

(***************************************************************************)
(* Bounds of the model                                                      *)
(***************************************************************************)
\* number of twin requests (GET or PATCH) one behaviour publishes
MaxRequests == 3
\* number of clock steps one behaviour takes
MaxTicks == 1
\* the epoch at which a behaviour starts, and the length of a clock step
StartEpoch == 1700000000
TimeStep == 86400

(***************************************************************************)
(* Program constants                                                        *)
(***************************************************************************)
\* while (... && retries < 5)
MaxRetries == 5
\* #define SAS_TOKEN_DURATION 86400
SAS_TOKEN_DURATION == 86400
\* expiryTime = 1738540800 when NTP failed
FallbackExpiry == 1738540800
\* static int twinRequestId: a 32-bit signed int
IntMax == 2147483647
IntMin == 0 - IntMax - 1
\* the three subscriptions of azureIoTConnect
NumSubscriptions == 3

(***************************************************************************)
(* String literals of the source                                            *)
(***************************************************************************)
\* "/messages/devicebound/"
C2D_MARK ==
    <<"/","m","e","s","s","a","g","e","s","/","d","e","v","i","c","e","b","o","u","n","d","/">>
\* "$iothub/twin/res/"
TWIN_RES_PREFIX ==
    <<"$","i","o","t","h","u","b","/","t","w","i","n","/","r","e","s","/">>
\* "$iothub/twin/PATCH/properties/desired/"
DESIRED_PREFIX ==
    <<"$","i","o","t","h","u","b","/","t","w","i","n","/","P","A","T","C","H","/","p","r","o","p","e","r","t","i","e","s","/","d","e","s","i","r","e","d","/">>
\* "$version="
VERSION_MARK ==
    <<"$","v","e","r","s","i","o","n","=">>

DigitChars == <<"0","1","2","3","4","5","6","7","8","9">>

IsDigit(c) == \E i \in 1..10 : DigitChars[i] = c

DigitVal(c) == (CHOOSE i \in 1..10 : DigitChars[i] = c) - 1

(***************************************************************************)
(* C library functions used by mqttCallback                                 *)
(***************************************************************************)
\* strncmp(s + (from-1), lit, n) == 0, compared character by character and
\* stopping at the terminating NUL of s (position Len(s)+1)
RECURSIVE StrNEq(_, _, _, _, _)
StrNEq(s, from, lit, k, n) ==
    IF k > n THEN TRUE
    ELSE IF from + k - 1 > Len(s) THEN FALSE
    ELSE IF s[from + k - 1] # lit[k] THEN FALSE
    ELSE StrNEq(s, from, lit, k + 1, n)

\* strncmp(topic, lit, n) == 0
strncmp0(s, lit, n) == StrNEq(s, 1, lit, 1, n)

\* the first of a set of positions, 0 (for NULL) when there is none
FirstOf(hits) ==
    IF hits = {} THEN 0 ELSE CHOOSE i \in hits : \A j \in hits : i <= j

\* strstr(s, lit): the 1-based position of the first occurrence, 0 for NULL
strstr(s, lit) ==
    FirstOf({i \in 1..(Len(s) - Len(lit) + 1) :
                /\ (lit # <<>> => s[i] = lit[1])
                /\ SubSeq(s, i, i + Len(lit) - 1) = lit})

\* the digit loop of atoi: acc = acc * 10 + digit while a digit is read
RECURSIVE AtoiDigits(_, _, _)
AtoiDigits(s, i, acc) ==
    IF i > Len(s) THEN acc
    ELSE IF ~IsDigit(s[i]) THEN acc
    ELSE AtoiDigits(s, i + 1, acc * 10 + DigitVal(s[i]))

RECURSIVE AtoiSkip(_, _)
AtoiSkip(s, i) ==
    IF i <= Len(s) /\ s[i] = " " THEN AtoiSkip(s, i + 1) ELSE i

\* atoi(s + (from-1)): white space, an optional sign, then decimal digits
atoi(s, from) ==
    LET i == AtoiSkip(s, from) IN
    IF i <= Len(s) /\ s[i] = "-" THEN 0 - AtoiDigits(s, i + 1, 0)
    ELSE IF i <= Len(s) /\ s[i] = "+" THEN AtoiDigits(s, i + 1, 0)
    ELSE AtoiDigits(s, i, 0)

(***************************************************************************)
(* mqttCallback: routing of one inbound message                             *)
(***************************************************************************)
\* mutant of ClassifyTopic: the twin prefixes tested before the C2D marker
ClassifyPrefixFirst(topic) ==
    IF strncmp0(topic, TWIN_RES_PREFIX, 17) THEN "twin"
    ELSE IF strncmp0(topic, DESIRED_PREFIX, 38) THEN "desired"
    ELSE IF strstr(topic, C2D_MARK) # 0 THEN "c2d"
    ELSE "unknown"

\* the conditions of the if / else-if chain of mqttCallback, in its order
ClassifyTopic(topic) ==
    IF strstr(topic, C2D_MARK) # 0 THEN "c2d"
    ELSE IF strncmp0(topic, TWIN_RES_PREFIX, 17) THEN "twin"
    ELSE IF strncmp0(topic, DESIRED_PREFIX, 38) THEN "desired"
    ELSE "unknown"

\* int status = atoi(topic + 17)
ParseStatus(topic) == atoi(topic, 18)

\* mutant of ParseVersion: the number read one character too early
ParseVersionOffByOne(topic) ==
    LET versionStart == strstr(topic, VERSION_MARK) IN
    IF versionStart # 0 THEN atoi(topic, versionStart + 8) ELSE 0

\* int version = 0; versionStart = strstr(topic, "$version=");
\* if (versionStart) version = atoi(versionStart + 9)
ParseVersion(topic) ==
    LET versionStart == strstr(topic, VERSION_MARK) IN
    IF versionStart # 0 THEN atoi(topic, versionStart + 9) ELSE 0

\* mutant of TwinAccepted: the test of twinGetPending is left out
TwinAcceptedAlways(status, pending) == status = 200

\* if (status == 200 && twinGetPending): the full twin is accepted
TwinAccepted(status, pending) == status = 200 /\ pending

\* one application callback invocation; arg is the version handed to
\* onDesiredProperties and 0 for the other two
Invoke(registered, fn, arg) ==
    IF registered THEN <<[fn |-> fn, arg |-> arg]>> ELSE <<>>

\* mutant of mqttCallback: the final else clears the pending twin GET
mqttCallbackDropClears(topic, pending, c2dSet, desiredSet, twinSet) ==
    LET kind == ClassifyTopic(topic) IN
    IF kind = "c2d" THEN
        [route |-> "c2d", status |-> 0, cb |-> Invoke(c2dSet, "c2d", 0),
         pending |-> pending]
    ELSE IF kind = "twin" THEN
        LET status == ParseStatus(topic) IN
        IF TwinAccepted(status, pending) THEN
            [route |-> "twin", status |-> status,
             cb |-> Invoke(twinSet, "twin", 0), pending |-> FALSE]
        ELSE
            [route |-> "twin", status |-> status, cb |-> <<>>,
             pending |-> pending]
    ELSE IF kind = "desired" THEN
        [route |-> "desired", status |-> 0,
         cb |-> Invoke(desiredSet, "desired", ParseVersion(topic)),
         pending |-> pending]
    ELSE
        [route |-> "unknown", status |-> 0, cb |-> <<>>, pending |-> FALSE]

\* mqttCallback(topic, payload, length) run with twinGetPending = pending and
\* the three callback pointers non-NULL as given: the route taken, the
\* callbacks invoked in order, and twinGetPending afterwards
mqttCallback(topic, pending, c2dSet, desiredSet, twinSet) ==
    LET kind == ClassifyTopic(topic) IN
    IF kind = "c2d" THEN
        [route |-> "c2d", status |-> 0, cb |-> Invoke(c2dSet, "c2d", 0),
         pending |-> pending]
    ELSE IF kind = "twin" THEN
        LET status == ParseStatus(topic) IN
        IF TwinAccepted(status, pending) THEN
            [route |-> "twin", status |-> status,
             cb |-> Invoke(twinSet, "twin", 0), pending |-> FALSE]
        ELSE
            [route |-> "twin", status |-> status, cb |-> <<>>,
             pending |-> pending]
    ELSE IF kind = "desired" THEN
        [route |-> "desired", status |-> 0,
         cb |-> Invoke(desiredSet, "desired", ParseVersion(topic)),
         pending |-> pending]
    ELSE
        [route |-> "unknown", status |-> 0, cb |-> <<>>, pending |-> pending]

(***************************************************************************)
(* The hub's side: the topics it publishes to the device                    *)
(***************************************************************************)
\* decimal text of a natural number below 2^31: %d, %lu
DecDigits(n, digits) ==
    SubSeq([k \in 1..digits |->
               DigitChars[((n \div (10 ^ (digits - k))) % 10) + 1]],
           1, digits)

Dec(n) ==
    DecDigits(n, CHOOSE d \in 1..10 : /\ (d = 1 \/ n >= 10 ^ (d - 1))
                                      /\ (d = 10 \/ n < 10 ^ d))

\* "devices/dev1"
DEVICE_PREFIX ==
    <<"d","e","v","i","c","e","s","/","d","e","v","1">>
\* "devices/dev1/messages/events/"
EVENTS_TOPIC ==
    <<"d","e","v","i","c","e","s","/","d","e","v","1","/","m","e","s","s","a","g","e","s","/","e","v","e","n","t","s","/">>
\* "?$rid="
RID_QUERY == <<"?","$","r","i","d","=">>
\* "$iothub/methods/POST/reboot/?$rid=1": a direct method call, a topic the
\* device does not subscribe to
METHODS_TOPIC ==
    <<"$","i","o","t","h","u","b","/","m","e","t","h","o","d","s","/","P","O","S","T","/","r","e","b","o","o","t","/","?","$","r","i","d","=","1">>

TwinStatuses == {200, 204, 404}
DesiredVersions == {5, 12}

\* the request ids the hub can be asked to answer: those of a fresh session
\* and the last one before the counter overflows
HubRids == (1..(MaxRequests + 1)) \cup {IntMax}

\* a message as the hub sends it: what it answers (hubKind), the status,
\* request id and version it puts into the topic (0 / -1: none), and whether
\* the topic also carries the device-bound marker
Msg(kind, status, rid, version, marked) ==
    [hubKind |-> kind, hubStatus |-> status, hubRid |-> rid,
     hubVersion |-> version, marked |-> marked]

NoMsg == Msg("none", 0, 0, -1, FALSE)

\* the topic of a message, as the hub formats it:
\*   devices/dev1/messages/devicebound/
\*   $iothub/twin/res/{status}/?$rid={rid}  and  $iothub/twin/res/{status}/
\*   $iothub/twin/PATCH/properties/desired/?$version={v}
\*   devices/dev1/messages/events/
\*   $iothub/methods/POST/reboot/?$rid=1
\*   $iothub/twin/res   (the twin response prefix without its last "/")
\* and, marked, a twin topic that goes on with messages/devicebound/
TopicOf(m) ==
    IF m.hubKind = "c2d" THEN DEVICE_PREFIX \o C2D_MARK
    ELSE IF m.hubKind = "twin" THEN
        TWIN_RES_PREFIX \o Dec(m.hubStatus)
            \o (IF m.marked THEN C2D_MARK ELSE <<"/">>)
            \o (IF m.hubRid # 0 THEN RID_QUERY \o Dec(m.hubRid) ELSE <<>>)
    ELSE IF m.hubKind = "desired" THEN
        DESIRED_PREFIX
            \o (IF m.marked THEN Tail(C2D_MARK) ELSE <<>>)
            \o (IF m.hubVersion >= 0
                THEN <<"?">> \o VERSION_MARK \o Dec(m.hubVersion) ELSE <<>>)
    ELSE IF m.hubKind = "events" THEN EVENTS_TOPIC
    ELSE IF m.hubKind = "methods" THEN METHODS_TOPIC
    ELSE IF m.hubKind = "short" THEN SubSeq(TWIN_RES_PREFIX, 1, 16)
    ELSE <<>>

\* every message the transport can hand to mqttCallback
AllMsgs ==
    {Msg("c2d", 0, 0, -1, TRUE)}
    \cup {Msg("twin", s, r, -1, FALSE) : s \in TwinStatuses, r \in HubRids}
    \cup {Msg("twin", 200, 0, -1, FALSE), Msg("twin", 200, 0, -1, TRUE)}
    \cup {Msg("desired", 0, 0, v, FALSE) : v \in DesiredVersions \cup {-1}}
    \cup {Msg("desired", 0, 0, -1, TRUE)}
    \cup {Msg("events", 0, 0, -1, FALSE)}
    \cup {Msg("methods", 0, 0, -1, FALSE), Msg("short", 0, 0, -1, FALSE)}

\* mqttCallback on every message, for every value of what it reads
DeliveryTable ==
    [m \in AllMsgs, pending \in BOOLEAN, c2dSet \in BOOLEAN,
     desiredSet \in BOOLEAN, twinSet \in BOOLEAN |->
        mqttCallback(TopicOf(m), pending, c2dSet, desiredSet, twinSet)]

(***************************************************************************)
(* Characters: a char is a one-character string; the bytes 0x60 and 0xE9    *)
(* are written "<60>" and "<E9>"                                            *)
(***************************************************************************)
\* the characters with codes 32 to 126, in code order
Printable ==
    <<" ","!","\"","#","$","%","&","'","(",")","*","+",",","-",".","/","0","1","2","3","4","5","6","7","8","9",":",";","<","=",">","?","@","A","B","C","D","E","F","G","H","I","J","K","L","M","N","O","P","Q","R","S","T","U","V","W","X","Y","Z","[","\\","]","^","_","<60>","a","b","c","d","e","f","g","h","i","j","k","l","m","n","o","p","q","r","s","t","u","v","w","x","y","z","{","|","}","~">>

HIGH_BYTE == "<E9>"

\* (unsigned char)c, printable being Printable
CharCodeIn(c, printable) ==
    IF c = HIGH_BYTE THEN 233
    ELSE IF c = "\n" THEN 10
    ELSE 31 + (CHOOSE i \in 1..Len(printable) : printable[i] = c)

CharCode(c) == CharCodeIn(c, Printable)

HexDigits == <<"0","1","2","3","4","5","6","7","8","9","A","B","C","D","E","F">>

\* the characters c with c >= 'a' && c <= 'z', with c >= 'A' && c <= 'Z' and
\* with c >= '0' && c <= '9'
LowerCase == {"a","b","c","d","e","f","g","h","i","j","k","l","m","n","o","p","q","r","s","t","u","v","w","x","y","z"}
UpperCase == {"A","B","C","D","E","F","G","H","I","J","K","L","M","N","O","P","Q","R","S","T","U","V","W","X","Y","Z"}
Digits == {"0","1","2","3","4","5","6","7","8","9"}

\* the tables of characters, in one value that an operator working through a
\* text takes as its argument t
CharTables ==
    [lower |-> LowerCase, upper |-> UpperCase, digits |-> Digits,
     printable |-> Printable, hex |-> HexDigits]

(***************************************************************************)
(* urlEncode                                                                *)
(***************************************************************************)
\* the test of urlEncode for a character that is copied unchanged
IsUnreserved(c, t) ==
    \/ c \in t.lower \/ c \in t.upper \/ c \in t.digits
    \/ c = "-" \/ c = "_" \/ c = "." \/ c = "~"

\* "%%%02X" of a character code
PercentHexOf(code, hex) ==
    <<"%", hex[(code \div 16) + 1], hex[(code % 16) + 1]>>

\* snprintf(&output[j], 4, "%%%02X", (unsigned char)c)
PercentHex(c, t) == PercentHexOf(CharCodeIn(c, t.printable), t.hex)

\* the loop condition of urlEncode: input[i] != '\0' && j < outputSize - 4
\* (i counted from 1)
UrlEncodeGoesOn(input, i, j, outputSize) ==
    i <= Len(input) /\ j < outputSize - 4

\* the body of the loop of urlEncode for the character c: what it appends
UrlEncodeChar(c, t) ==
    IF IsUnreserved(c, t) THEN <<c>> ELSE PercentHex(c, t)

\* the texts pieces[lo..hi] one after the other, for hi - lo < 2^k in JoinK
Join0(pieces, lo, hi) == IF lo > hi THEN <<>> ELSE pieces[lo]
Join1(pieces, lo, hi) ==
    IF lo >= hi THEN Join0(pieces, lo, hi)
    ELSE Join0(pieces, lo, (lo + hi) \div 2)
             \o Join0(pieces, ((lo + hi) \div 2) + 1, hi)
Join2(pieces, lo, hi) ==
    IF lo >= hi THEN Join0(pieces, lo, hi)
    ELSE Join1(pieces, lo, (lo + hi) \div 2)
             \o Join1(pieces, ((lo + hi) \div 2) + 1, hi)
Join3(pieces, lo, hi) ==
    IF lo >= hi THEN Join0(pieces, lo, hi)
    ELSE Join2(pieces, lo, (lo + hi) \div 2)
             \o Join2(pieces, ((lo + hi) \div 2) + 1, hi)
Join4(pieces, lo, hi) ==
    IF lo >= hi THEN Join0(pieces, lo, hi)
    ELSE Join3(pieces, lo, (lo + hi) \div 2)
             \o Join3(pieces, ((lo + hi) \div 2) + 1, hi)
Join5(pieces, lo, hi) ==
    IF lo >= hi THEN Join0(pieces, lo, hi)
    ELSE Join4(pieces, lo, (lo + hi) \div 2)
             \o Join4(pieces, ((lo + hi) \div 2) + 1, hi)
Join6(pieces, lo, hi) ==
    IF lo >= hi THEN Join0(pieces, lo, hi)
    ELSE Join5(pieces, lo, (lo + hi) \div 2)
             \o Join5(pieces, ((lo + hi) \div 2) + 1, hi)
Join7(pieces, lo, hi) ==
    IF lo >= hi THEN Join0(pieces, lo, hi)
    ELSE Join6(pieces, lo, (lo + hi) \div 2)
             \o Join6(pieces, ((lo + hi) \div 2) + 1, hi)
Join8(pieces, lo, hi) ==
    IF lo >= hi THEN Join0(pieces, lo, hi)
    ELSE Join7(pieces, lo, (lo + hi) \div 2)
             \o Join7(pieces, ((lo + hi) \div 2) + 1, hi)

\* the texts of a tuple of at most 256 texts one after the other
Join(pieces) == Join8(pieces, 1, Len(pieces))

\* j at the start of iteration i (counted from 1) of the loop of urlEncode
\* when the iterations before it all ran; piece[k] is what iteration k appends
UrlEncodeBefore(piece, i) ==
    (i - 1) + 2 * Cardinality({k \in 1..(i - 1) : Len(piece[k]) = 3})

\* what the first `ran` iterations left in output
UrlEncodeRan(piece, whole, ran) ==
    IF ran = 0 THEN <<>>
    ELSE SubSeq(whole, 1, UrlEncodeBefore(piece, ran) + Len(piece[ran]))

\* the loop of urlEncode, whole being all the pieces one after the other. j
\* never decreases, so the loop condition stays false once it is false: when
\* it holds at the last iteration every iteration runs; otherwise the
\* iterations that run are those at which it holds
UrlEncodeLoop(input, outputSize, piece, whole) ==
    IF input = <<>> THEN <<>>
    ELSE IF UrlEncodeGoesOn(input, Len(input),
                            Len(whole) - Len(piece[Len(input)]), outputSize)
    THEN whole
    ELSE UrlEncodeRan(piece, whole,
             Cardinality({i \in 1..Len(input) :
                             UrlEncodeGoesOn(input, i,
                                             UrlEncodeBefore(piece, i),
                                             outputSize)}))

\* what each iteration of the loop of urlEncode appends when it runs
UrlEncodePieces(input, t) ==
    SubSeq([i \in 1..Len(input) |-> UrlEncodeChar(input[i], t)],
           1, Len(input))

UrlEncodeJoin(input, outputSize, piece) ==
    UrlEncodeLoop(input, outputSize, piece, Join(piece))

\* urlEncode(input, output, outputSize) for an input of at most 256
\* characters: the text left in output
urlEncode(input, outputSize) ==
    UrlEncodeJoin(input, outputSize, UrlEncodePieces(input, CharTables))

(***************************************************************************)
(* parseConnectionString                                                    *)
(***************************************************************************)
\* sizeof(iotHubHostname), sizeof(deviceId), sizeof(deviceKey)
HostnameSize == 128
DeviceIdSize == 64
DeviceKeySize == 64

\* "HostName=", "DeviceId=", "SharedAccessKey="
HOSTNAME_KEY == <<"H","o","s","t","N","a","m","e","=">>
DEVICEID_KEY == <<"D","e","v","i","c","e","I","d","=">>
SHAREDKEY_KEY == <<"S","h","a","r","e","d","A","c","c","e","s","s","K","e","y","=">>

\* strchr(s + (from-1), c): the 1-based position of the first c at or after
\* from, 0 for NULL
strchr(s, from, c) == FirstOf({i \in from..Len(s) : s[i] = c})

\* the negation of if (len >= sizeof(buffer)): the value and its NUL fit
FieldFits(len, size) == ~(len >= size)

\* one of the three blocks of parseConnectionString for a key found at
\* keyStart, its value going from start up to end - 1: fits tells whether
\* the value fits the buffer, value is the text copied into the buffer then
FieldBetween(text, size, start, end) ==
    IF ~FieldFits(end - start, size)
    THEN [found |-> TRUE, fits |-> FALSE, value |-> <<>>]
    ELSE [found |-> TRUE, fits |-> TRUE, value |-> SubSeq(text, start, end - 1)]

\* the value ends at semi, the next ';', or at the end of the string
FieldUpTo(text, size, start, semi) ==
    FieldBetween(text, size, start, IF semi = 0 THEN Len(text) + 1 ELSE semi)

FieldFrom(text, size, start) ==
    FieldUpTo(text, size, start, strchr(text, start, ";"))

FieldAt(text, key, size, keyStart) ==
    IF keyStart = 0 THEN [found |-> FALSE, fits |-> FALSE, value |-> <<>>]
    ELSE FieldFrom(text, size, keyStart + Len(key))

\* one of the three blocks of parseConnectionString: the key searched with
\* strstr, the value taken up to the next ';' or the end of the string.
\* found: the key was found
ParseField(text, key, size) == FieldAt(text, key, size, strstr(text, key))

\* what a block that failed prints, and so the return value false
ParseError(f, name) ==
    IF ~f.found THEN <<name, "not found">> ELSE <<name, "too long">>

\* parseConnectionString() whose three blocks do h, d and k when they run: a
\* block that fails returns before the later ones
ParseBlocks(h, d, k) ==
    LET hOk == h.found /\ h.fits
        dOk == hOk /\ d.found /\ d.fits
        kOk == dOk /\ k.found /\ k.fits
    IN
    [ok |-> kOk,
     err |-> IF ~hOk THEN ParseError(h, "HostName")
             ELSE IF ~dOk THEN ParseError(d, "DeviceId")
             ELSE IF ~kOk THEN ParseError(k, "SharedAccessKey")
             ELSE <<>>,
     hostSet |-> hOk, iotHubHostname |-> h.value,
     deviceSet |-> dOk, deviceId |-> d.value,
     keySet |-> kOk, deviceKey |-> k.value]

\* parseConnectionString() on IOT_CONNECTION_STRING = text: the return
\* value, the error printed, and for each of the three buffers whether it was
\* written and with what
parseConnectionString(text) ==
    ParseBlocks(ParseField(text, HOSTNAME_KEY, HostnameSize),
                ParseField(text, DEVICEID_KEY, DeviceIdSize),
                ParseField(text, SHAREDKEY_KEY, DeviceKeySize))

(***************************************************************************)
(* generateSasToken                                                         *)
(***************************************************************************)
\* char resourceUri[256], encodedUri[256], signatureString[512],
\* encodedSignature[128]; static char sasToken[512]
ResourceUriSize == 256
EncodedUriSize == 256
SignatureStringSize == 512
EncodedSignatureSize == 128
SasTokenSize == 512
\* unsigned char hmacResult[32]: its base64 text has 44 characters, the last
\* of them the padding "="
SignatureTextLen == 44

\* "/devices/", "SharedAccessSignature sr=", "&sig=", "&se="
DEVICES_PATH == <<"/","d","e","v","i","c","e","s","/">>
SAS_PREFIX == <<"S","h","a","r","e","d","A","c","c","e","s","s","S","i","g","n","a","t","u","r","e"," ","s","r","=">>
SIG_PARAM == <<"&","s","i","g","=">>
SE_PARAM == <<"&","s","e","=">>

\* the base64 alphabet of mbedtls, in the order of its 6-bit values
Base64Alphabet ==
    <<"A","B","C","D","E","F","G","H","I","J","K","L","M","N","O","P","Q","R","S","T","U","V","W","X","Y","Z","a","b","c","d","e","f","g","h","i","j","k","l","m","n","o","p","q","r","s","t","u","v","w","x","y","z","0","1","2","3","4","5","6","7","8","9","+","/">>

IsBase64Char(c, t) ==
    c \in t.lower \/ c \in t.upper \/ c \in t.digits \/ c = "+" \/ c = "/"

\* snprintf(buffer, size, ...): the formatted text cut to size - 1 characters
snprintf(text, size) ==
    IF Len(text) <= size - 1 THEN text ELSE SubSeq(text, 1, size - 1)

\* alphabet characters followed by at most two "=", and nothing else; pads
\* are the positions of the "="
Base64Padded(text, pads, t) ==
    /\ \A i \in 1..Len(text) : IsBase64Char(text[i], t) \/ text[i] = "="
    /\ Cardinality(pads) <= 2
    /\ \A i \in pads : \A j \in (i + 1)..Len(text) : text[j] = "="

\* mbedtls_base64_decode(..) == 0 for a text without white space
Base64Decodable(text) ==
    Base64Padded(text, {i \in 1..Len(text) : text[i] = "="}, CharTables)

\* a base64 text of size characters: alphabet characters picked by seed,
\* and the padding
DigestOver(alphabet, seed, size) ==
    SubSeq([k \in 1..size |->
               IF k = size THEN "="
               ELSE alphabet[((seed + 7 * k) % 64) + 1]],
           1, size)

DigestText(seed) == DigestOver(Base64Alphabet, seed, SignatureTextLen)

\* the code of the last character of a text, 0 for the empty text
LastCode(text) == IF text = <<>> THEN 0 ELSE CharCode(text[Len(text)])

\* HMAC-SHA256(decoded key, message) in base64, as a function of its two
\* arguments that stands for the digest: a text picked by the lengths and the
\* last characters of the arguments
HmacBase64(key, message) ==
    DigestText((Len(key) * 31 + LastCode(key) * 7 + Len(message) * 3
                + LastCode(message)) % 64)

\* snprintf(signatureString, .., "%s\n%lu", encodedUri, expiry): the text
\* that is signed
SignatureString(encodedUri, expiryText) ==
    snprintf(encodedUri \o <<"\n">> \o expiryText, SignatureStringSize)

\* the end of generateSasToken(): the final snprintf into sasToken, and the
\* locals
SasFormat(keyOk, expiry, expiryText, resourceUri, encodedUri, signatureString, base64Signature, encodedSignature) ==
    [keyOk |-> keyOk,
     expiry |-> expiry,
     resourceUri |-> resourceUri,
     encodedUri |-> encodedUri,
     signatureString |-> signatureString,
     base64Signature |-> base64Signature,
     encodedSignature |-> encodedSignature,
     sasToken |-> snprintf(SAS_PREFIX \o encodedUri \o SIG_PARAM
                              \o encodedSignature \o SE_PARAM
                              \o expiryText, SasTokenSize)]

\* urlEncode(base64Signature, encodedSignature, sizeof(encodedSignature))
SasEncodeSignature(keyOk, expiry, expiryText, resourceUri, encodedUri, signatureString, base64Signature) ==
    SasFormat(keyOk, expiry, expiryText, resourceUri, encodedUri,
              signatureString, base64Signature,
              urlEncode(base64Signature, EncodedSignatureSize))

\* the HMAC of signatureString under the decoded key, in base64
SasSign(key, keyOk, expiry, expiryText, resourceUri, encodedUri, signatureString) ==
    SasEncodeSignature(keyOk, expiry, expiryText, resourceUri, encodedUri,
                       signatureString,
                       IF keyOk THEN HmacBase64(key, signatureString)
                       ELSE <<>>)

\* signatureString built, deviceKey decoded
SasSignatureString(key, expiry, expiryText, resourceUri, encodedUri) ==
    SasSign(key, Base64Decodable(key), expiry, expiryText, resourceUri,
            encodedUri, SignatureString(encodedUri, expiryText))

\* urlEncode(resourceUri, encodedUri, sizeof(encodedUri))
SasEncodeUri(key, expiry, expiryText, resourceUri) ==
    SasSignatureString(key, expiry, expiryText, resourceUri,
                       urlEncode(resourceUri, EncodedUriSize))

\* generateSasToken(expiryTimeSeconds) run with the three credential buffers
\* as given, up to mbedtls_md_setup(): keyOk is the result of the base64
\* decoding of deviceKey; the other fields are the local buffers and the text
\* written to sasToken when the function goes on to its end
generateSasToken(host, dev, key, expiry) ==
    SasEncodeUri(key, expiry, Dec(expiry),
                 snprintf(host \o DEVICES_PATH \o dev, ResourceUriSize))

(***************************************************************************)
(* The MQTT username and the two topics built by azureIoTInit               *)
(***************************************************************************)
\* sizeof(mqttUsername), sizeof(telemetryTopic) and sizeof(c2dTopic)
UsernameSize == 256
TopicSize == 128

\* "/?api-version=" and IOT_HUB_API_VERSION
API_VERSION_QUERY == <<"/","?","a","p","i","-","v","e","r","s","i","o","n","=">>
IOT_HUB_API_VERSION == <<"2","0","2","1","-","0","4","-","1","2">>
\* "devices/", "/messages/events/", "/messages/devicebound/#"
DEVICES_ROOT == <<"d","e","v","i","c","e","s","/">>
EVENTS_PATH == <<"/","m","e","s","s","a","g","e","s","/","e","v","e","n","t","s","/">>
DEVICEBOUND_FILTER == <<"/","m","e","s","s","a","g","e","s","/","d","e","v","i","c","e","b","o","u","n","d","/","#">>

\* snprintf(mqttUsername, .., "%s/%s/?api-version=%s", ..)
MqttUsername(host, dev) ==
    snprintf(host \o <<"/">> \o dev \o API_VERSION_QUERY \o IOT_HUB_API_VERSION,
             UsernameSize)

\* snprintf(telemetryTopic, .., "devices/%s/messages/events/", deviceId)
TelemetryTopic(dev) == snprintf(DEVICES_ROOT \o dev \o EVENTS_PATH, TopicSize)

\* snprintf(c2dTopic, .., "devices/%s/messages/devicebound/#", deviceId)
C2dTopic(dev) == snprintf(DEVICES_ROOT \o dev \o DEVICEBOUND_FILTER, TopicSize)

(***************************************************************************)
(* The connection strings the device can be configured with                 *)
(***************************************************************************)
\* a text of n characters c
Rep(c, n) == SubSeq([i \in 1..n |-> c], 1, n)

\* the pairs of a connection string, joined by ";"
\* (of at most 5 pairs)
JoinPairs(pairs) ==
    LET Part(i) == IF i > Len(pairs) THEN <<>>
                   ELSE IF i = 1 THEN pairs[1]
                   ELSE <<";">> \o pairs[i]
    IN Part(1) \o Part(2) \o Part(3) \o Part(4) \o Part(5)

\* "h.example.net", "dev1" and the base64 text of 16 zero bytes
HOST_VALUE == <<"h",".","e","x","a","m","p","l","e",".","n","e","t">>
DEVICE_VALUE == <<"d","e","v","1">>
KEY_VALUE == <<"A","A","A","A","A","A","A","A","A","A","A","A","A","A","A","A","A","A","A","A","A","A","=","=">>
\* a device id with characters that urlEncode escapes
DEVICE_RESERVED == <<"d","@","v","~","1",":",HIGH_BYTE>>
\* a key that is not base64
KEY_MALFORMED == <<"A","A","A","A","!","A","A","A">>
\* pairs with other keys: "ModuleId=m1", "GatewayHostName=gw.local"
MODULE_PAIR == <<"M","o","d","u","l","e","I","d","=","m","1">>
GATEWAY_PAIR == <<"G","a","t","e","w","a","y","H","o","s","t","N","a","m","e","=","g","w",".","l","o","c","a","l">>

HostPair(value) == HOSTNAME_KEY \o value
DevicePair(value) == DEVICEID_KEY \o value
KeyPair(value) == SHAREDKEY_KEY \o value

\* the three pairs with the given values, in each of their 6 orders
Orders == {o \in [1..3 -> 1..3] : \A i, j \in 1..3 : o[i] = o[j] => i = j}
Ordered(host, dev, key, o) ==
    LET pairs == <<HostPair(host), DevicePair(dev), KeyPair(key)>> IN
    <<pairs[o[1]], pairs[o[2]], pairs[o[3]]>>

\* IOT_CONNECTION_STRING of the example of the documentation
DefaultConnStr ==
    JoinPairs(<<HostPair(HOST_VALUE), DevicePair(DEVICE_VALUE), KeyPair(KEY_VALUE)>>)

\* the connection strings of a device in the field: the example, one without
\* DeviceId, one whose DeviceId has 64 characters, one with a malformed key
CredInputs ==
    {DefaultConnStr,
     JoinPairs(<<HostPair(HOST_VALUE), KeyPair(KEY_VALUE)>>),
     JoinPairs(<<HostPair(HOST_VALUE), DevicePair(Rep("d", DeviceIdSize)),
                 KeyPair(KEY_VALUE)>>),
     JoinPairs(<<HostPair(HOST_VALUE), DevicePair(DEVICE_VALUE),
                 KeyPair(KEY_MALFORMED)>>)}

\* the connection strings parseConnectionString is tried on
ParseInputs ==
    \* the three pairs in every order, alone, between other pairs, and after
    \* a GatewayHostName pair
    {JoinPairs(Ordered(HOST_VALUE, DEVICE_VALUE, KEY_VALUE, o)) : o \in Orders}
    \cup {JoinPairs(<<MODULE_PAIR>> \o Ordered(HOST_VALUE, DEVICE_VALUE, KEY_VALUE, o)
                    \o <<GATEWAY_PAIR>>) : o \in Orders}
    \cup {JoinPairs(<<GATEWAY_PAIR>> \o Ordered(HOST_VALUE, DEVICE_VALUE, KEY_VALUE, o))
             : o \in Orders}
    \* a trailing ";"
    \cup {DefaultConnStr \o <<";">>}
    \* one of the three pairs missing
    \cup {JoinPairs(<<DevicePair(DEVICE_VALUE), KeyPair(KEY_VALUE)>>),
          JoinPairs(<<HostPair(HOST_VALUE), KeyPair(KEY_VALUE)>>),
          JoinPairs(<<HostPair(HOST_VALUE), DevicePair(DEVICE_VALUE)>>),
          JoinPairs(<<GATEWAY_PAIR, DevicePair(DEVICE_VALUE), KeyPair(KEY_VALUE)>>)}
    \* an empty value
    \cup {JoinPairs(<<HostPair(<<>>), DevicePair(DEVICE_VALUE), KeyPair(KEY_VALUE)>>),
          JoinPairs(<<HostPair(HOST_VALUE), DevicePair(<<>>), KeyPair(KEY_VALUE)>>),
          JoinPairs(<<HostPair(HOST_VALUE), DevicePair(DEVICE_VALUE), KeyPair(<<>>)>>)}
    \* values of the largest length that fits, and one character longer
    \cup {JoinPairs(<<HostPair(Rep("h", n)), DevicePair(DEVICE_VALUE), KeyPair(KEY_VALUE)>>)
             : n \in {HostnameSize - 1, HostnameSize}}
    \cup {JoinPairs(<<HostPair(HOST_VALUE), DevicePair(Rep("d", n)), KeyPair(KEY_VALUE)>>)
             : n \in {DeviceIdSize - 1, DeviceIdSize}}
    \cup {JoinPairs(<<HostPair(HOST_VALUE), DevicePair(DEVICE_VALUE), KeyPair(Rep("A", n))>>)
             : n \in {DeviceKeySize - 1, DeviceKeySize}}
    \cup {JoinPairs(<<GATEWAY_PAIR, HostPair(Rep("h", HostnameSize)),
                      DevicePair(DEVICE_VALUE), KeyPair(KEY_VALUE)>>)}
    \* values with characters that urlEncode escapes: a short device id, and
    \* a host name and a device id that fit their buffers
    \cup {JoinPairs(<<HostPair(HOST_VALUE), DevicePair(DEVICE_RESERVED), KeyPair(KEY_VALUE)>>),
          JoinPairs(<<HostPair(Rep("h", HostnameSize - 1)),
                      DevicePair(Rep("@", DeviceIdSize - 1)), KeyPair(KEY_VALUE)>>),
          JoinPairs(<<HostPair(HOST_VALUE), DevicePair(DEVICE_VALUE), KeyPair(KEY_MALFORMED)>>)}

ConnStrings == CredInputs \cup ParseInputs

\* parseConnectionString() on every connection string (f @@ <<>> is f, held
\* as a table)
ParseTable == [c \in ConnStrings |-> parseConnectionString(c)] @@ <<>>

(***************************************************************************)
(* State                                                                    *)
(***************************************************************************)
VARIABLES
    isInitialized,          \* static bool isInitialized
    isConnected,            \* static bool isConnected
    twinRequestId,          \* static int twinRequestId
    twinGetPending,         \* static bool twinGetPending
    c2dCallback,            \* c2dCallback != NULL
    desiredPropsCallback,   \* desiredPropsCallback != NULL
    twinReceivedCallback,   \* twinReceivedCallback != NULL
    sasExpiry,              \* the se= field of sasToken, 0 while it is empty
    connStr,                \* IOT_CONNECTION_STRING
    allowInsecureFallback,  \* the build's setting for the unvalidated-TLS
                            \* fallback of azureIoTInit
    parsed,                 \* what parseConnectionString() does, a function
                            \* of connStr alone: worked out once, with it
    tokens,                 \* what generateSasToken(e) then does for each
                            \* expiry time e, a function of connStr and e
    iotHubHostname,         \* static char iotHubHostname[128]
    deviceId,               \* static char deviceId[64]
    deviceKey,              \* static char deviceKey[64]
    sasToken,               \* static char sasToken[512]
    mqttUsername,           \* static char mqttUsername[256]
    telemetryTopic,         \* static char telemetryTopic[128]
    c2dTopic,               \* static char c2dTopic[128]
    tlsInsecure,            \* wifiClient validates no certificate
    mqttConnected,          \* mqttClient.connected()
    now,                    \* the epoch time
    crashed,                \* the program was stopped by a trap
    pc,                     \* where the (single) thread is: "app", between two
                            \* API calls, or "mqttLoop", inside azureIoTLoop
                            \* before its mqttClient.loop()
    ridLog,                 \* history: the $rid of every twin request published
    openGets,               \* history: GETs published, not answered, not abandoned
    abandonedGets,          \* history: GETs that were open at a reconnect
    lastCall,               \* history: what the last step did
    hasWifi,                \* main.cpp: static bool hasWifi
    hasMqtt,                \* main.cpp: static bool hasMqtt
    appPc,                  \* where main.cpp is: in setup() before one of its
                            \* calls, or in loop() before one of its statements
    hubAccepts,             \* the transport accepts every CONNECT from now on
    drops,                  \* history: how often the connection was lost
                            \* under main.cpp
    tick,                   \* history: what the current pass of loop() did
    issued                  \* history: the twin calls main.cpp has made

credVars == <<connStr, allowInsecureFallback, parsed, tokens,
              iotHubHostname, deviceId, deviceKey, sasToken,
              mqttUsername, telemetryTopic, c2dTopic>>
progVars == <<isInitialized, isConnected, twinRequestId, twinGetPending,
              sasExpiry, tlsInsecure, credVars>>
cbVars == <<c2dCallback, desiredPropsCallback, twinReceivedCallback>>
envVars == <<mqttConnected, now, crashed, pc>>
histVars == <<ridLog, openGets, abandonedGets>>
appVars == <<hasWifi, hasMqtt, appPc, hubAccepts, drops, tick, issued>>
vars == <<progVars, cbVars, envVars, histVars, lastCall, appVars>>

\* a pass of loop() that has done nothing yet
NewTick == [attempts |-> 0, hasMqtt |-> FALSE, published |-> FALSE]

\* main.cpp before setup(): its statics after their initializers
AppStart ==
    /\ hasWifi = FALSE
    /\ hasMqtt = FALSE
    /\ appPc = "setup"
    /\ hubAccepts = FALSE
    /\ drops = 0
    /\ tick = NewTick
    /\ issued = {}

\* the application can make an API call
Running == ~crashed /\ pc = "app"

\* the record of a step that did nothing but be called
Call(op) ==
    [op |-> op, ok |-> FALSE, tries |-> <<>>, subsTried |-> 0,
     subOk |-> FALSE, pub |-> <<>>, msg |-> NoMsg, route |-> "none",
     status |-> 0, cb |-> <<>>, err |-> <<>>, sas |-> <<>>, sent |-> <<>>,
     probes |-> <<>>]

(***************************************************************************)
(* azureIoTConnect                                                          *)
(***************************************************************************)
\* mutant of RetryAllowed: an off-by-one retry bound
RetryAllowedOffByOne(retries) == retries <= MaxRetries

\* the retry condition of while (!mqttClient.connected() && retries < 5)
RetryAllowed(retries) == retries < MaxRetries

\* the while loop of azureIoTConnect entered with the transport down;
\* beh[i] is the result of the i-th mqttClient.connect(); tries are the
\* results of the CONNECT attempts made
RECURSIVE ConnectRun(_, _, _)
ConnectRun(beh, retries, tries) ==
    IF RetryAllowed(retries) THEN
        IF beh[retries + 1] THEN [ok |-> TRUE, tries |-> Append(tries, TRUE)]
        ELSE ConnectRun(beh, retries + 1, Append(tries, FALSE))
    ELSE [ok |-> FALSE, tries |-> tries]

\* mutant of SubscribeAll: subOk = subOk && subscribe(..), which stops at the
\* first subscription that fails
SubscribeShortCircuit(subs) ==
    [tried |-> IF \A i \in 1..NumSubscriptions : subs[i] THEN NumSubscriptions
               ELSE CHOOSE i \in 1..NumSubscriptions :
                       ~subs[i] /\ \A j \in 1..(i - 1) : subs[j],
     ok |-> \A i \in 1..NumSubscriptions : subs[i]]

\* subOk &= subscribe(..) three times: every subscription is attempted
SubscribeAll(subs) ==
    [tried |-> NumSubscriptions, ok |-> \A i \in 1..NumSubscriptions : subs[i]]

\* azureIoTConnect() called with isInitialized = init, isConnected = conn and
\* mqttClient.connected() = up: its return value, the attempts and
\* subscriptions made, and isConnected / mqttClient.connected() afterwards
azureIoTConnect(init, conn, up, beh, sub) ==
    IF ~init THEN
        [ok |-> FALSE, tries |-> <<>>, subsTried |-> 0, subOk |-> FALSE,
         isConnected |-> conn, mqttConnected |-> up]
    ELSE IF up THEN
        [ok |-> FALSE, tries |-> <<>>, subsTried |-> 0, subOk |-> FALSE,
         isConnected |-> FALSE, mqttConnected |-> up]
    ELSE
        LET r == ConnectRun(beh, 0, <<>>) IN
        IF r.ok THEN
            [ok |-> TRUE, tries |-> r.tries,
             subsTried |-> sub.tried, subOk |-> sub.ok,
             isConnected |-> TRUE, mqttConnected |-> TRUE]
        ELSE
            [ok |-> FALSE, tries |-> r.tries, subsTried |-> 0,
             subOk |-> FALSE, isConnected |-> FALSE, mqttConnected |-> FALSE]

\* the transport's answers to one call: one result per possible CONNECT
\* attempt (it fails the first k-1 attempts and accepts from the k-th on, or
\* never) and one per subscription
ConnectBehaviours ==
    {[i \in 1..(MaxRetries + 1) |-> i >= k] : k \in 1..(MaxRetries + 2)}
SubscribeBehaviours == [1..NumSubscriptions -> BOOLEAN]
\* what the three subscribe() calls of one successful connect can amount to
SubscribeResults == {SubscribeAll(subs) : subs \in SubscribeBehaviours}

\* a session (re)connect: the hub forgets the requests of the old session
Reconnected(r) == r.ok

\* a uint32_t value from its two 16-bit halves
Uint32Join(hi, lo) == hi * 65536 + lo

\* a + b in uint32_t arithmetic, for a and b from 0 to 2^31 - 1: the sum
\* modulo 2^32, worked out on 16-bit halves with the carry of the low one
Uint32Add(a, b) ==
    Uint32Join(((a \div 65536) + (b \div 65536)
                   + (((a % 65536) + (b % 65536)) \div 65536)) % 65536,
               ((a % 65536) + (b % 65536)) % 65536)

\* expiryTime = (uint32_t)epochTime + SAS_TOKEN_DURATION when time is synced,
\* 1738540800 otherwise
ExpiryTime(synced, epochTime) ==
    IF synced THEN Uint32Add(epochTime, SAS_TOKEN_DURATION)
    ELSE FallbackExpiry

\* the epoch times of the model, and the expiry times azureIoTInit() can
\* ask a token for
Times == {StartEpoch + k * TimeStep : k \in 0..MaxTicks}
Expiries == {ExpiryTime(synced, t) : synced \in BOOLEAN, t \in Times}

\* what is left of a run g of generateSasToken() when it has returned: its
\* argument, whether deviceKey was decoded, and the text in sasToken
TokenOf(g) ==
    [keyOk |-> g.keyOk, expiry |-> g.expiry, sasToken |-> g.sasToken]

\* generateSasToken(e), run on the buffers that parseConnectionString()
\* leaves in p, for every expiry time e
TokensOf(p) ==
    [e \in Expiries |->
        TokenOf(generateSasToken(p.iotHubHostname, p.deviceId, p.deviceKey,
                                 e))]
    @@ <<>>

(***************************************************************************)
(* Initial state: the statics as initialized at load time                   *)
(***************************************************************************)
\* the statics after their initializers, with the configuration of the build:
\* a connection string from `inputs`, the fallback setting `fallback`
InitState(inputs, fallback) ==
    /\ isInitialized = FALSE
    /\ isConnected = FALSE
    /\ twinRequestId = 0
    /\ twinGetPending = FALSE
    /\ c2dCallback = FALSE
    /\ desiredPropsCallback = FALSE
    /\ twinReceivedCallback = FALSE
    /\ sasExpiry = 0
    /\ connStr \in inputs
    /\ allowInsecureFallback = fallback
    /\ parsed = parseConnectionString(connStr)
    /\ tokens = TokensOf(parsed)
    /\ iotHubHostname = <<>>
    /\ deviceId = <<>>
    /\ deviceKey = <<>>
    /\ sasToken = <<>>
    /\ mqttUsername = <<>>
    /\ telemetryTopic = <<>>
    /\ c2dTopic = <<>>
    /\ tlsInsecure = FALSE
    /\ mqttConnected = FALSE
    /\ now = StartEpoch
    /\ crashed = FALSE
    /\ pc = "app"
    /\ ridLog = <<>>
    /\ openGets = {}
    /\ abandonedGets = {}
    /\ lastCall = Call("none")
    /\ AppStart

\* a build that leaves the fallback enabled
Init == InitState(CredInputs, TRUE)

(***************************************************************************)
(* azureIoTInit                                                             *)
(***************************************************************************)
\* mutant of InitResult: a degraded mode, the session initialized although
\* both TLS probes failed
InitResultDegraded(expiry, insecure, init, t, parseOk, synced, keyOk, tlsOk, insecureOk) ==
    IF ~parseOk \/ ~keyOk THEN
        [ok |-> FALSE, sasExpiry |-> expiry, tlsInsecure |-> insecure,
         isInitialized |-> init]
    ELSE
        [ok |-> tlsOk \/ insecureOk, sasExpiry |-> ExpiryTime(synced, t),
         tlsInsecure |-> ~tlsOk, isInitialized |-> TRUE]

\* azureIoTInit() run with sasToken expiring at `expiry`, wifiClient
\* validating or not (`insecure`) and isInitialized = init, at time `t`;
\* parseOk, keyOk are the results of parseConnectionString() and of
\* generateSasToken(), tlsOk and insecureOk those of the two
\* wifiClient.connect() probes: the return value and the three afterwards
\* mutant of InitResult: the call fails when the time is not synced
InitResultNeedsTime(expiry, insecure, init, t, parseOk, synced, keyOk, tlsOk, insecureOk) ==
    IF ~parseOk \/ ~keyOk THEN
        [ok |-> FALSE, sasExpiry |-> expiry, tlsInsecure |-> insecure,
         isInitialized |-> init]
    ELSE IF ~synced THEN
        [ok |-> FALSE, sasExpiry |-> ExpiryTime(synced, t),
         tlsInsecure |-> insecure, isInitialized |-> init]
    ELSE IF tlsOk \/ insecureOk THEN
        [ok |-> TRUE, sasExpiry |-> ExpiryTime(synced, t),
         tlsInsecure |-> ~tlsOk, isInitialized |-> TRUE]
    ELSE
        [ok |-> FALSE, sasExpiry |-> ExpiryTime(synced, t),
         tlsInsecure |-> TRUE, isInitialized |-> init]

\* mutant of InitResult: no fallback, the call fails when the validated probe
\* fails although the unvalidated probe succeeds
InitResultValidatedOnly(expiry, insecure, init, t, parseOk, synced, keyOk, tlsOk, insecureOk) ==
    IF ~parseOk \/ ~keyOk THEN
        [ok |-> FALSE, sasExpiry |-> expiry, tlsInsecure |-> insecure,
         isInitialized |-> init]
    ELSE IF tlsOk THEN
        [ok |-> TRUE, sasExpiry |-> ExpiryTime(synced, t),
         tlsInsecure |-> FALSE, isInitialized |-> TRUE]
    ELSE
        [ok |-> FALSE, sasExpiry |-> ExpiryTime(synced, t),
         tlsInsecure |-> TRUE, isInitialized |-> init]

InitResult(expiry, insecure, init, t, parseOk, synced, keyOk, tlsOk, insecureOk) ==
    IF ~parseOk THEN
        [ok |-> FALSE, sasExpiry |-> expiry, tlsInsecure |-> insecure,
         isInitialized |-> init]
    ELSE IF ~keyOk THEN
        [ok |-> FALSE, sasExpiry |-> expiry, tlsInsecure |-> insecure,
         isInitialized |-> init]
    ELSE IF tlsOk THEN
        [ok |-> TRUE, sasExpiry |-> ExpiryTime(synced, t),
         tlsInsecure |-> FALSE, isInitialized |-> TRUE]
    ELSE IF insecureOk THEN
        [ok |-> TRUE, sasExpiry |-> ExpiryTime(synced, t),
         tlsInsecure |-> TRUE, isInitialized |-> TRUE]
    ELSE
        [ok |-> FALSE, sasExpiry |-> ExpiryTime(synced, t),
         tlsInsecure |-> TRUE, isInitialized |-> init]

\* the times at which a behaviour can call azureIoTInit(), and the expiry
\* times it can give the token
\* generateSasToken() for every connection string that parses and every
\* expiry time
SasTable ==
    [c \in {c \in DOMAIN ParseTable : ParseTable[c].ok}, e \in Expiries |->
        generateSasToken(ParseTable[c].iotHubHostname, ParseTable[c].deviceId,
                         ParseTable[c].deviceKey, e)] @@ <<>>

\* one wifiClient.connect(iotHubHostname, MQTT_PORT) of azureIoTInit(): after
\* setCACert ("validated") or after setInsecure ("unvalidated"), and its result
Probe(mode, ok) == [mode |-> mode, ok |-> ok]

\* one call of azureIoTInit() in the current state. p is what
\* parseConnectionString() does, g what generateSasToken(expiryTime) does
\* with the buffers p leaves when it can decode the key; synced, mdOk, tlsOk
\* and insecureOk are the results of IsTimeSynced(), mbedtls_md_setup() and
\* the two wifiClient.connect() probes. The result: the return value, what
\* the call printed when it failed, the argument of generateSasToken() and
\* the answer of IsTimeSynced() behind it when generateSasToken() ran to its
\* end, the TLS probes made, and the statics afterwards
InitRun(p, g, synced, mdOk, tlsOk, insecureOk) ==
    LET keyOk == p.ok /\ g.keyOk
        generated == keyOk /\ mdOk
        r == InitResult(sasExpiry, tlsInsecure, isInitialized, now,
                        p.ok, synced, generated, tlsOk, insecureOk)
    IN
    [ok |-> r.ok,
     err |-> IF ~p.ok THEN p.err
             ELSE IF ~keyOk THEN <<"SharedAccessKey", "not decoded">>
             ELSE IF ~mdOk THEN <<"HMAC", "not set up">>
             ELSE IF ~r.ok THEN <<"TLS", "failed">>
             ELSE <<>>,
     sas |-> IF generated
             THEN <<[expiry |-> g.expiry, synced |-> synced]>> ELSE <<>>,
     probes |-> IF ~generated THEN <<>>
                ELSE IF tlsOk THEN <<Probe("validated", TRUE)>>
                ELSE <<Probe("validated", FALSE),
                       Probe("unvalidated", insecureOk)>>,
     isInitialized |-> r.isInitialized,
     sasExpiry |-> r.sasExpiry,
     tlsInsecure |-> r.tlsInsecure,
     iotHubHostname |-> IF p.hostSet THEN p.iotHubHostname ELSE iotHubHostname,
     deviceId |-> IF p.deviceSet THEN p.deviceId ELSE deviceId,
     deviceKey |-> IF p.keySet THEN p.deviceKey ELSE deviceKey,
     sasToken |-> IF generated THEN g.sasToken ELSE sasToken,
     mqttUsername |-> IF generated
                      THEN MqttUsername(p.iotHubHostname, p.deviceId)
                      ELSE mqttUsername,
     telemetryTopic |-> IF generated THEN TelemetryTopic(p.deviceId)
                        ELSE telemetryTopic,
     c2dTopic |-> IF generated THEN C2dTopic(p.deviceId) ELSE c2dTopic]

\* azureIoTInit(). parseConnectionString() and generateSasToken(expiryTime)
\* are functions of IOT_CONNECTION_STRING and of the expiry time: the call
\* finds in parsed and tokens what they do
azureIoTInit ==
    /\ Running
    /\ \E r \in {InitRun(parsed, tokens[ExpiryTime(synced, now)],
                         synced, mdOk, tlsOk, insecureOk) :
                     synced \in BOOLEAN, mdOk \in BOOLEAN,
                     tlsOk \in BOOLEAN, insecureOk \in BOOLEAN} :
       /\ sasExpiry' = r.sasExpiry
       /\ tlsInsecure' = r.tlsInsecure
       /\ isInitialized' = r.isInitialized
       /\ iotHubHostname' = r.iotHubHostname
       /\ deviceId' = r.deviceId
       /\ deviceKey' = r.deviceKey
       /\ sasToken' = r.sasToken
       /\ mqttUsername' = r.mqttUsername
       /\ telemetryTopic' = r.telemetryTopic
       /\ c2dTopic' = r.c2dTopic
       /\ lastCall' = [Call("init") EXCEPT !.ok = r.ok, !.err = r.err,
                                           !.sas = r.sas,
                                           !.probes = r.probes]
    /\ UNCHANGED <<isConnected, twinRequestId, twinGetPending, connStr,
                   parsed, tokens,
                   allowInsecureFallback>>
    /\ UNCHANGED <<cbVars, envVars, histVars>>

(***************************************************************************)
(* The callback setters, called in the order in which setup() registers     *)
(* the application's three callbacks (main.cpp, lines 238 to 240)           *)
(***************************************************************************)
azureIoTSetC2DCallback ==
    /\ Running
    /\ c2dCallback' = TRUE
    /\ lastCall' = Call("none")
    /\ UNCHANGED <<progVars, desiredPropsCallback, twinReceivedCallback,
                   envVars, histVars>>

azureIoTSetDesiredPropertiesCallback ==
    /\ Running
    /\ c2dCallback
    /\ desiredPropsCallback' = TRUE
    /\ lastCall' = Call("none")
    /\ UNCHANGED <<progVars, c2dCallback, twinReceivedCallback, envVars,
                   histVars>>

azureIoTSetTwinReceivedCallback ==
    /\ Running
    /\ desiredPropsCallback
    /\ twinReceivedCallback' = TRUE
    /\ lastCall' = Call("none")
    /\ UNCHANGED <<progVars, c2dCallback, desiredPropsCallback, envVars,
                   histVars>>

(***************************************************************************)
(* azureIoTConnect called by the application                                *)
(***************************************************************************)
\* mutant of Connect: the client reads its input while it connects, and a
\* message that waits there is handed to onC2DMessage before connect returns
ConnectPumps ==
    /\ Running
    /\ \E r \in {azureIoTConnect(isInitialized, isConnected, mqttConnected,
                                 beh, sub) :
                     beh \in ConnectBehaviours, sub \in SubscribeResults} :
       /\ isConnected' = r.isConnected
       /\ mqttConnected' = r.mqttConnected
       /\ openGets' = IF Reconnected(r) THEN {} ELSE openGets
       /\ abandonedGets' = IF Reconnected(r) THEN abandonedGets \cup openGets
                           ELSE abandonedGets
       /\ lastCall' = [Call("connect") EXCEPT !.ok = r.ok, !.tries = r.tries,
                          !.subsTried = r.subsTried, !.subOk = r.subOk,
                          !.cb = IF r.ok /\ c2dCallback
                                 THEN <<[fn |-> "c2d", arg |-> 0]>> ELSE <<>>]
    /\ UNCHANGED <<isInitialized, twinRequestId, twinGetPending, sasExpiry,
                   tlsInsecure>>
    /\ UNCHANGED <<credVars, cbVars, now, crashed, pc, ridLog>>

Connect ==
    /\ Running
    /\ \E r \in {azureIoTConnect(isInitialized, isConnected, mqttConnected,
                                 beh, sub) :
                     beh \in ConnectBehaviours, sub \in SubscribeResults} :
       /\ isConnected' = r.isConnected
       /\ mqttConnected' = r.mqttConnected
       /\ openGets' = IF Reconnected(r) THEN {} ELSE openGets
       /\ abandonedGets' = IF Reconnected(r) THEN abandonedGets \cup openGets
                           ELSE abandonedGets
       /\ lastCall' = [Call("connect") EXCEPT !.ok = r.ok, !.tries = r.tries,
                          !.subsTried = r.subsTried, !.subOk = r.subOk]
    /\ UNCHANGED <<isInitialized, twinRequestId, twinGetPending, sasExpiry,
                   tlsInsecure>>
    /\ UNCHANGED <<credVars, cbVars, now, crashed, pc, ridLog>>

(***************************************************************************)
(* azureIoTLoop                                                             *)
(***************************************************************************)
\* azureIoTIsConnected(): isConnected && mqttClient.connected()
azureIoTIsConnected(conn, up) == conn /\ up

\* mutant of LoopReconnect: the reconnect made without testing the transport
LoopReconnectAlways(conn, up, beh, sub) ==
    azureIoTConnect(TRUE, FALSE, FALSE, beh, sub)

\* the reconnect of azureIoTLoop: if (!mqttClient.connected())
\* { isConnected = false; azureIoTConnect(); }
LoopReconnect(conn, up, beh, sub) ==
    IF ~up THEN azureIoTConnect(TRUE, FALSE, up, beh, sub)
    ELSE [ok |-> FALSE, tries |-> <<>>, subsTried |-> 0, subOk |-> FALSE,
          isConnected |-> conn, mqttConnected |-> up]

\* azureIoTLoop() up to its call of mqttClient.loop()
azureIoTLoop ==
    /\ Running
    /\ IF ~isInitialized THEN
           /\ lastCall' = Call("loop")
           /\ UNCHANGED <<progVars, cbVars, envVars, histVars>>
       ELSE
           \E r \in {LoopReconnect(isConnected, mqttConnected, beh, sub) :
                        beh \in ConnectBehaviours, sub \in SubscribeResults} :
           /\ isConnected' = r.isConnected
           /\ mqttConnected' = r.mqttConnected
           /\ openGets' = IF Reconnected(r) THEN {} ELSE openGets
           /\ abandonedGets' = IF Reconnected(r)
                               THEN abandonedGets \cup openGets
                               ELSE abandonedGets
           /\ pc' = "mqttLoop"
           /\ lastCall' = [Call("loop") EXCEPT !.ok = r.ok, !.tries = r.tries,
                              !.subsTried = r.subsTried, !.subOk = r.subOk]
           /\ UNCHANGED <<isInitialized, twinRequestId, twinGetPending,
                          sasExpiry, tlsInsecure>>
           /\ UNCHANGED <<credVars, cbVars, now, crashed, ridLog>>

\* mqttClient.loop() reads at most one packet, and none without a
\* connection; the hub answers only requests it was sent
Deliverable(up, rids) ==
    IF up THEN {m \in AllMsgs : m.hubRid = 0 \/ m.hubRid \in rids} \cup {NoMsg}
    ELSE {NoMsg}

\* what mqttClient.loop() does with the packet it read
Deliver(msg, pending, c2dSet, desiredSet, twinSet) ==
    IF msg = NoMsg THEN
        [route |-> "none", status |-> 0, cb |-> <<>>, pending |-> pending]
    ELSE DeliveryTable[msg, pending, c2dSet, desiredSet, twinSet]

Range(seq) == {seq[i] : i \in 1..Len(seq)}

\* the mqttClient.loop() that ends azureIoTLoop()
MqttLoop ==
    /\ ~crashed
    /\ pc = "mqttLoop"
    /\ \E msg \in Deliverable(mqttConnected, Range(ridLog)) :
       LET d == Deliver(msg, twinGetPending, c2dCallback,
                        desiredPropsCallback, twinReceivedCallback)
           answered == IF msg.hubKind = "twin" THEN {msg.hubRid} ELSE {}
       IN
       /\ twinGetPending' = d.pending
       /\ openGets' = openGets \ answered
       /\ abandonedGets' = abandonedGets \ answered
       /\ pc' = "app"
       /\ lastCall' = [Call("mqttLoop") EXCEPT !.msg = msg,
                          !.route = d.route, !.status = d.status,
                          !.cb = d.cb]
    /\ UNCHANGED <<isInitialized, isConnected, twinRequestId, sasExpiry,
                   tlsInsecure>>
    /\ UNCHANGED <<credVars, cbVars, mqttConnected, now, crashed, ridLog>>

(***************************************************************************)
(* Device twin requests                                                     *)
(***************************************************************************)
\* mutant of PreIncrement: the counter is used but not advanced
NoIncrement(n) == {[trap |-> FALSE, val |-> n]}

\* ++twinRequestId on a signed int: the incremented value, and at INT_MAX
\* (signed overflow, undefined behaviour) what a build can make of it: the
\* two's-complement wrap, or a trap (-ftrapv / a sanitizer build)
PreIncrement(n) ==
    IF n < IntMax THEN {[trap |-> FALSE, val |-> n + 1]}
    ELSE {[trap |-> FALSE, val |-> IntMin], [trap |-> TRUE, val |-> n]}

\* twinGetPending after azureIoTRequestTwin published with result pubOk:
\* set to true before the publish, reset to false when it failed
PendingAfterGet(pending, pubOk) == pubOk

\* mutant of azureIoTRequestTwin: the id is taken before the test of the
\* connection
azureIoTRequestTwinOffline ==
    /\ Running
    /\ IF ~azureIoTIsConnected(isConnected, mqttConnected) THEN
           /\ twinRequestId < MaxRequests
           /\ twinRequestId' = twinRequestId + 1
           /\ lastCall' = Call("requestTwin")
           /\ UNCHANGED <<isInitialized, isConnected, twinGetPending,
                          sasExpiry, tlsInsecure>>
           /\ UNCHANGED <<credVars, cbVars, envVars, histVars>>
       ELSE
           /\ Len(ridLog) < MaxRequests
           /\ \E inc \in PreIncrement(twinRequestId), pubOk \in BOOLEAN :
              IF inc.trap THEN
                  /\ crashed' = TRUE
                  /\ lastCall' = Call("requestTwin")
                  /\ UNCHANGED <<progVars, cbVars, mqttConnected, now, pc,
                                 histVars>>
              ELSE
                  /\ twinRequestId' = inc.val
                  /\ twinGetPending' = PendingAfterGet(twinGetPending, pubOk)
                  /\ ridLog' = Append(ridLog, inc.val)
                  /\ openGets' = IF pubOk THEN openGets \cup {inc.val}
                                 ELSE openGets
                  /\ lastCall' = [Call("requestTwin") EXCEPT
                         !.ok = pubOk,
                         !.pub = <<[kind |-> "GET", rid |-> inc.val,
                                    ok |-> pubOk]>>]
                  /\ UNCHANGED <<isInitialized, isConnected, sasExpiry,
                                 tlsInsecure>>
                  /\ UNCHANGED <<credVars, cbVars, envVars, abandonedGets>>

azureIoTRequestTwin ==
    /\ Running
    /\ IF ~azureIoTIsConnected(isConnected, mqttConnected) THEN
           /\ lastCall' = Call("requestTwin")
           /\ UNCHANGED <<progVars, cbVars, envVars, histVars>>
       ELSE
           /\ Len(ridLog) < MaxRequests
           /\ \E inc \in PreIncrement(twinRequestId), pubOk \in BOOLEAN :
              IF inc.trap THEN
                  /\ crashed' = TRUE
                  /\ lastCall' = Call("requestTwin")
                  /\ UNCHANGED <<progVars, cbVars, mqttConnected, now, pc,
                                 histVars>>
              ELSE
                  /\ twinRequestId' = inc.val
                  /\ twinGetPending' = PendingAfterGet(twinGetPending, pubOk)
                  /\ ridLog' = Append(ridLog, inc.val)
                  /\ openGets' = IF pubOk THEN openGets \cup {inc.val}
                                 ELSE openGets
                  /\ lastCall' = [Call("requestTwin") EXCEPT
                         !.ok = pubOk,
                         !.pub = <<[kind |-> "GET", rid |-> inc.val,
                                    ok |-> pubOk]>>]
                  /\ UNCHANGED <<isInitialized, isConnected, sasExpiry,
                                 tlsInsecure>>
                  /\ UNCHANGED <<credVars, cbVars, envVars, abandonedGets>>

\* mutant of azureIoTUpdateReportedProperties: the PATCH is refused while a
\* GET is pending
azureIoTUpdateReportedPropertiesBusy ==
    /\ Running
    /\ IF ~azureIoTIsConnected(isConnected, mqttConnected) \/ twinGetPending
       THEN
           /\ lastCall' = Call("updateReported")
           /\ UNCHANGED <<progVars, cbVars, envVars, histVars>>
       ELSE
           /\ Len(ridLog) < MaxRequests
           /\ \E inc \in PreIncrement(twinRequestId), pubOk \in BOOLEAN :
              IF inc.trap THEN
                  /\ crashed' = TRUE
                  /\ lastCall' = Call("updateReported")
                  /\ UNCHANGED <<progVars, cbVars, mqttConnected, now, pc,
                                 histVars>>
              ELSE
                  /\ twinRequestId' = inc.val
                  /\ ridLog' = Append(ridLog, inc.val)
                  /\ lastCall' = [Call("updateReported") EXCEPT
                         !.ok = pubOk,
                         !.pub = <<[kind |-> "PATCH", rid |-> inc.val,
                                    ok |-> pubOk]>>]
                  /\ UNCHANGED <<isInitialized, isConnected, twinGetPending,
                                 sasExpiry, tlsInsecure>>
                  /\ UNCHANGED <<credVars, cbVars, envVars, openGets, abandonedGets>>

azureIoTUpdateReportedProperties ==
    /\ Running
    /\ IF ~azureIoTIsConnected(isConnected, mqttConnected) THEN
           /\ lastCall' = Call("updateReported")
           /\ UNCHANGED <<progVars, cbVars, envVars, histVars>>
       ELSE
           /\ Len(ridLog) < MaxRequests
           /\ \E inc \in PreIncrement(twinRequestId), pubOk \in BOOLEAN :
              IF inc.trap THEN
                  /\ crashed' = TRUE
                  /\ lastCall' = Call("updateReported")
                  /\ UNCHANGED <<progVars, cbVars, mqttConnected, now, pc,
                                 histVars>>
              ELSE
                  /\ twinRequestId' = inc.val
                  /\ ridLog' = Append(ridLog, inc.val)
                  /\ lastCall' = [Call("updateReported") EXCEPT
                         !.ok = pubOk,
                         !.pub = <<[kind |-> "PATCH", rid |-> inc.val,
                                    ok |-> pubOk]>>]
                  /\ UNCHANGED <<isInitialized, isConnected, twinGetPending,
                                 sasExpiry, tlsInsecure>>
                  /\ UNCHANGED <<credVars, cbVars, envVars, openGets, abandonedGets>>

(***************************************************************************)
(* azureIoTSendTelemetry                                                    *)
(***************************************************************************)
\* the size of the local buffer topic of azureIoTSendTelemetry
SendTopicSize == 256

\* the application properties a caller passes: none, or one pair
PROPERTIES == <<"a", "=", "1">>
TelemetryProperties == {<<>>, PROPERTIES}

\* the topic azureIoTSendTelemetry() publishes on: both branches of its if
\* format "devices/%s/messages/events/" followed by the properties, which
\* are empty in the second
SendTopic(dev, properties) ==
    snprintf(DEVICES_ROOT \o dev \o EVENTS_PATH \o properties, SendTopicSize)

\* mutant of SendTelemetry: the publish is made without the test of the
\* connection
SendTelemetryUnguarded(conn, up, dev, properties, pubOk) ==
    [ok |-> pubOk,
     sent |-> <<[topic |-> SendTopic(dev, properties), ok |-> pubOk]>>]

\* azureIoTSendTelemetry(payload, properties), pubOk being what
\* mqttClient.publish() returns when it is called: the return value, and the
\* publishes handed to mqttClient, each with its topic and its result
SendTelemetry(conn, up, dev, properties, pubOk) ==
    IF ~azureIoTIsConnected(conn, up) THEN [ok |-> FALSE, sent |-> <<>>]
    ELSE [ok |-> pubOk,
          sent |-> <<[topic |-> SendTopic(dev, properties), ok |-> pubOk]>>]

azureIoTSendTelemetry ==
    /\ Running
    /\ \E r \in {SendTelemetry(isConnected, mqttConnected, deviceId,
                               properties, pubOk) :
                     properties \in TelemetryProperties, pubOk \in BOOLEAN} :
          lastCall' = [Call("sendTelemetry") EXCEPT !.ok = r.ok,
                                                    !.sent = r.sent]
    /\ UNCHANGED <<progVars, cbVars, envVars, histVars>>

(***************************************************************************)
(* Environment                                                              *)
(***************************************************************************)
\* time passes
Tick ==
    /\ ~crashed
    /\ now < StartEpoch + MaxTicks * TimeStep
    /\ now' = now + TimeStep
    /\ lastCall' = Call("none")
    /\ UNCHANGED <<progVars, cbVars, mqttConnected, crashed, pc, histVars>>

\* the connection to the hub is lost
TransportDrop ==
    /\ ~crashed
    /\ mqttConnected
    /\ mqttConnected' = FALSE
    /\ lastCall' = Call("none")
    /\ UNCHANGED <<progVars, cbVars, now, crashed, pc, histVars>>

(***************************************************************************)
(* Specifications                                                           *)
(***************************************************************************)
\* a step of the library under a caller that is not main.cpp, or of its
\* environment: main.cpp stays where it is
ApiCall(call) == call /\ UNCHANGED appVars

Next ==
    \/ ApiCall(azureIoTInit)
    \/ ApiCall(azureIoTSetC2DCallback)
    \/ ApiCall(azureIoTSetDesiredPropertiesCallback)
    \/ ApiCall(azureIoTSetTwinReceivedCallback)
    \/ ApiCall(Connect)
    \/ ApiCall(azureIoTLoop)
    \/ ApiCall(MqttLoop)
    \/ ApiCall(azureIoTRequestTwin)
    \/ ApiCall(azureIoTUpdateReportedProperties)
    \/ ApiCall(azureIoTSendTelemetry)
    \/ ApiCall(TransportDrop)

\* the program with the clock standing still: no step of it but azureIoTInit
\* reads the time
Spec == Init /\ [][Next]_vars

\* the program while time passes
NextClock == Next \/ ApiCall(Tick)

SpecClock == Init /\ [][NextClock]_vars

\* a session that has published IntMax - 1 twin requests: initialized,
\* connected, its callbacks registered as by setup()
InitLimit ==
    /\ isInitialized = TRUE
    /\ isConnected = TRUE
    /\ twinRequestId = IntMax - 1
    /\ twinGetPending = FALSE
    /\ c2dCallback = TRUE
    /\ desiredPropsCallback = TRUE
    /\ twinReceivedCallback = TRUE
    /\ sasExpiry = ExpiryTime(TRUE, StartEpoch)
    /\ connStr = DefaultConnStr
    /\ allowInsecureFallback = TRUE
    /\ parsed = parseConnectionString(connStr)
    /\ tokens = TokensOf(parsed)
    /\ iotHubHostname = HOST_VALUE
    /\ deviceId = DEVICE_VALUE
    /\ deviceKey = KEY_VALUE
    /\ sasToken = generateSasToken(HOST_VALUE, DEVICE_VALUE, KEY_VALUE,
                                   ExpiryTime(TRUE, StartEpoch)).sasToken
    /\ mqttUsername = MqttUsername(HOST_VALUE, DEVICE_VALUE)
    /\ telemetryTopic = TelemetryTopic(DEVICE_VALUE)
    /\ c2dTopic = C2dTopic(DEVICE_VALUE)
    /\ tlsInsecure = FALSE
    /\ mqttConnected = TRUE
    /\ now = StartEpoch
    /\ crashed = FALSE
    /\ pc = "app"
    /\ ridLog = <<>>
    /\ openGets = {}
    /\ abandonedGets = {}
    /\ lastCall = Call("none")
    /\ AppStart

SpecLimit == InitLimit /\ [][Next]_vars

\* a build that disables the fallback
InitHardened == InitState(CredInputs, FALSE)

\* the session of such a build: its initialization and its connection
NextHardened ==
    \/ ApiCall(azureIoTInit)
    \/ ApiCall(Connect)
    \/ ApiCall(azureIoTLoop)
    \/ ApiCall(MqttLoop)
    \/ ApiCall(TransportDrop)

SpecHardened == InitHardened /\ [][NextHardened]_vars

\* builds over the connection strings of ParseInputs
InitParse == InitState(ParseInputs, TRUE)

\* the calls that write and read the credential buffers
NextParse ==
    \/ ApiCall(azureIoTInit)
    \/ ApiCall(Connect)
    \/ ApiCall(azureIoTSendTelemetry)

SpecParse == InitParse /\ [][NextParse]_vars

(***************************************************************************)
(* The application: main.cpp, the Arduino core calling setup() once and     *)
(* then loop() again and again                                              *)
(***************************************************************************)
\* how often the connection can be lost under main.cpp
MaxDrops == 2

\* the transport keeps its word: once it accepts every CONNECT, no attempt
\* of a call fails
ConnectsAccepted(accepts, tries) ==
    accepts => \A i \in DOMAIN tries : tries[i]

\* the pass of loop() after a step that made the CONNECT attempts `tries`
Attempted(t, tries) == [t EXCEPT !.attempts = t.attempts + Len(tries)]

\* initWiFi(): WiFi.begin() sets hasWifi; without WiFi setup() returns
initWiFi ==
    /\ Running
    /\ appPc = "setup"
    /\ \E begun \in BOOLEAN :
          /\ hasWifi' = begun
          /\ appPc' = IF begun THEN "azureIoTInit" ELSE "loop"
    /\ lastCall' = Call("none")
    /\ UNCHANGED <<progVars, cbVars, envVars, histVars>>
    /\ UNCHANGED <<hasMqtt, hubAccepts, drops, tick, issued>>

\* if (!azureIoTInit()) return;
setupInit ==
    /\ appPc = "azureIoTInit"
    /\ azureIoTInit
    /\ appPc' = IF lastCall'.ok THEN "azureIoTSetC2DCallback" ELSE "loop"
    /\ UNCHANGED <<hasWifi, hasMqtt, hubAccepts, drops, tick, issued>>

\* azureIoTSetC2DCallback(onC2DMessage);
setupC2DCallback ==
    /\ appPc = "azureIoTSetC2DCallback"
    /\ azureIoTSetC2DCallback
    /\ appPc' = "azureIoTSetDesiredPropertiesCallback"
    /\ UNCHANGED <<hasWifi, hasMqtt, hubAccepts, drops, tick, issued>>

\* azureIoTSetDesiredPropertiesCallback(onDesiredProperties);
setupDesiredPropertiesCallback ==
    /\ appPc = "azureIoTSetDesiredPropertiesCallback"
    /\ azureIoTSetDesiredPropertiesCallback
    /\ appPc' = "azureIoTSetTwinReceivedCallback"
    /\ UNCHANGED <<hasWifi, hasMqtt, hubAccepts, drops, tick, issued>>

\* azureIoTSetTwinReceivedCallback(onTwinReceived);
setupTwinReceivedCallback ==
    /\ appPc = "azureIoTSetTwinReceivedCallback"
    /\ azureIoTSetTwinReceivedCallback
    /\ appPc' = "azureIoTConnect"
    /\ UNCHANGED <<hasWifi, hasMqtt, hubAccepts, drops, tick, issued>>

\* if (!azureIoTConnect()) { hasMqtt = false; return; } hasMqtt = true;
setupConnect ==
    /\ appPc = "azureIoTConnect"
    /\ Connect
    /\ ConnectsAccepted(hubAccepts, lastCall'.tries)
    /\ hasMqtt' = lastCall'.ok
    /\ appPc' = IF lastCall'.ok THEN "azureIoTRequestTwin" ELSE "loop"
    /\ UNCHANGED <<hasWifi, hubAccepts, drops, tick, issued>>

\* azureIoTRequestTwin();
setupRequestTwin ==
    /\ appPc = "azureIoTRequestTwin"
    /\ azureIoTRequestTwin
    /\ issued' = issued \cup {"requestTwin"}
    /\ appPc' = "azureIoTUpdateReportedProperties"
    /\ UNCHANGED <<hasWifi, hasMqtt, hubAccepts, drops, tick>>

\* azureIoTUpdateReportedProperties(reportedJson); and setup() returns
setupUpdateReportedProperties ==
    /\ appPc = "azureIoTUpdateReportedProperties"
    /\ azureIoTUpdateReportedProperties
    /\ issued' = issued \cup {"updateReported"}
    /\ appPc' = "loop"
    /\ UNCHANGED <<hasWifi, hasMqtt, hubAccepts, drops, tick>>

\* setup()
setup ==
    \/ initWiFi
    \/ setupInit
    \/ setupC2DCallback
    \/ setupDesiredPropertiesCallback
    \/ setupTwinReceivedCallback
    \/ setupConnect
    \/ setupRequestTwin
    \/ setupUpdateReportedProperties

\* loop() begins: azureIoTLoop(), up to its mqttClient.loop()
loopAzureIoTLoop ==
    /\ appPc = "loop"
    /\ azureIoTLoop
    /\ ConnectsAccepted(hubAccepts, lastCall'.tries)
    /\ tick' = Attempted(NewTick, lastCall'.tries)
    /\ appPc' = IF pc' = "mqttLoop" THEN "mqttClient.loop" ELSE "updateLEDs"
    /\ UNCHANGED <<hasWifi, hasMqtt, hubAccepts, drops, issued>>

\* the mqttClient.loop() of azureIoTLoop(), which then returns
loopMqttLoop ==
    /\ appPc = "mqttClient.loop"
    /\ MqttLoop
    /\ tick' = Attempted(tick, lastCall'.tries)
    /\ appPc' = "updateLEDs"
    /\ UNCHANGED <<hasWifi, hasMqtt, hubAccepts, drops, issued>>

\* mutant of loopStatus: hasMqtt is left as setup() set it
loopStatusStale ==
    /\ Running
    /\ appPc = "updateLEDs"
    /\ hasMqtt' = hasMqtt
    /\ tick' = [tick EXCEPT !.hasMqtt = hasMqtt']
    /\ \E due \in BOOLEAN :
          appPc' = IF hasMqtt' /\ due THEN "sendTelemetry" ELSE "loop"
    /\ lastCall' = Call("none")
    /\ UNCHANGED <<progVars, cbVars, envVars, histVars>>
    /\ UNCHANGED <<hasWifi, hubAccepts, drops, issued>>

\* hasMqtt = azureIoTIsConnected(); updateLEDs(); and the test of the
\* telemetry interval on millis(), a clock of which nothing else depends:
\* `due` is what now - lastTelemetryTime >= TELEMETRY_INTERVAL gives
loopStatus ==
    /\ Running
    /\ appPc = "updateLEDs"
    /\ hasMqtt' = azureIoTIsConnected(isConnected, mqttConnected)
    /\ tick' = [tick EXCEPT !.hasMqtt = hasMqtt']
    /\ \E due \in BOOLEAN :
          appPc' = IF hasMqtt' /\ due THEN "sendTelemetry" ELSE "loop"
    /\ lastCall' = Call("none")
    /\ UNCHANGED <<progVars, cbVars, envVars, histVars>>
    /\ UNCHANGED <<hasWifi, hubAccepts, drops, issued>>

\* sendTelemetry(): nothing without hasMqtt or when Sensors.toJson() fails,
\* azureIoTSendTelemetry(payload, props) otherwise; loop() then returns
sendTelemetry ==
    /\ appPc = "sendTelemetry"
    /\ \/ /\ Running
          /\ lastCall' = Call("none")
          /\ UNCHANGED <<progVars, cbVars, envVars, histVars>>
       \/ /\ hasMqtt
          /\ azureIoTSendTelemetry
    /\ tick' = [Attempted(tick, lastCall'.tries)
                   EXCEPT !.published = lastCall'.sent # <<>>]
    /\ appPc' = "loop"
    /\ UNCHANGED <<hasWifi, hasMqtt, hubAccepts, drops, issued>>

\* loop()
loop ==
    \/ loopAzureIoTLoop
    \/ loopMqttLoop
    \/ loopStatus
    \/ sendTelemetry

\* the connection to the hub is lost under main.cpp
AppTransportDrop ==
    /\ drops < MaxDrops
    /\ TransportDrop
    /\ drops' = drops + 1
    /\ UNCHANGED <<hasWifi, hasMqtt, appPc, hubAccepts, tick, issued>>

\* from now on the transport accepts every CONNECT attempt
HubAccepts ==
    /\ ~hubAccepts
    /\ hubAccepts' = TRUE
    /\ lastCall' = Call("none")
    /\ UNCHANGED <<progVars, cbVars, envVars, histVars>>
    /\ UNCHANGED <<hasWifi, hasMqtt, appPc, drops, tick, issued>>

\* main.cpp runs
main == setup \/ loop

NextApp ==
    \/ main
    \/ AppTransportDrop
    \/ HubAccepts

\* main.cpp on the device: every call of setup() and loop() returns, and
\* the Arduino core calls loop() again
SpecApp == Init /\ [][NextApp]_vars /\ WF_vars(main)

(***************************************************************************)
(* Properties                                                               *)
(***************************************************************************)
\* the step is a call of azureIoTConnect() by the application
ConnectStep == lastCall'.op = "connect"
\* the step is a call of azureIoTLoop(), up to its mqttClient.loop()
LoopStep == lastCall'.op = "loop"
\* the step is the mqttClient.loop() of azureIoTLoop()
DeliveryStep == lastCall'.op = "mqttLoop"
\* the step delivers the hub's status-200 answer to a twin request
Twin200Step ==
    /\ DeliveryStep
    /\ lastCall'.msg.hubKind = "twin"
    /\ lastCall'.msg.hubStatus = 200
    /\ ~lastCall'.msg.marked

\* the CONNECT attempts of a call stop at the first that succeeds
StopsAtFirstSuccess(call) ==
    /\ \A i \in 1..(Len(call.tries) - 1) : call.tries[i] = FALSE
    /\ call.ok <=> (call.tries # <<>> /\ call.tries[Len(call.tries)] = TRUE)

\* C1: one connect() on an initialized, disconnected session makes between 1
\* and 5 CONNECT attempts, returns success at the first attempt that succeeds
\* without a further attempt, and returns failure after exactly 5 failures.
C1_ConnectBounded ==
    [][(ConnectStep /\ isInitialized /\ ~mqttConnected) =>
          /\ Len(lastCall'.tries) \in 1..5
          /\ StopsAtFirstSuccess(lastCall')
          /\ (~lastCall'.ok => Len(lastCall'.tries) = 5)
          /\ (lastCall'.ok <=> azureIoTIsConnected(isConnected', mqttConnected'))
      ]_vars

\* C1 witness: connect() succeeded at its 5th attempt, after 4 failures
C1_Witness ==
    /\ lastCall.op = "connect"
    /\ lastCall.tries = <<FALSE, FALSE, FALSE, FALSE, TRUE>>
    /\ lastCall.ok

\* C2: one loop() runs at most one bounded reconnect sequence: 1 to 5 CONNECT
\* attempts when the transport is down, and it goes on to return whether or
\* not they succeeded; no attempt when the transport is up; nothing at all
\* when the session was never initialized.
C2_LoopOneReconnect ==
    [][LoopStep =>
          /\ (isInitialized /\ ~mqttConnected =>
                 /\ Len(lastCall'.tries) \in 1..5
                 /\ StopsAtFirstSuccess(lastCall')
                 /\ pc' = "mqttLoop")
          /\ (isInitialized /\ mqttConnected =>
                 /\ lastCall'.tries = <<>>
                 /\ pc' = "mqttLoop")
          /\ (~isInitialized =>
                 /\ lastCall' = Call("loop")
                 /\ pc' = "app"
                 /\ UNCHANGED <<progVars, cbVars, envVars, histVars>>)
      ]_vars

\* C2 witness: a loop() whose reconnect failed 5 times goes on to its
\* mqttClient.loop()
C2_Witness ==
    /\ lastCall.op = "loop"
    /\ Len(lastCall.tries) = 5
    /\ ~lastCall.ok
    /\ pc = "mqttLoop"

\* C3: requestTwin() called while a twin GET is pending publishes no second
\* GET (it answers Busy), so that at most one GET is ever sent and neither
\* answered nor abandoned.
C3_GetBusyWhilePending ==
    /\ [](Cardinality(openGets) <= 1)
    /\ [][(lastCall'.op = "requestTwin" /\ twinGetPending) =>
             (lastCall'.pub = <<>> /\ twinRequestId' = twinRequestId)]_vars

\* C4: a reconnect abandons the twin requests pending before it: the hub's
\* status-200 answer to a GET sent before the reconnect invokes no callback
\* when it arrives after it, and a reconnect re-issues no request.
C4_ReconnectAbandons ==
    /\ [][(Twin200Step /\ lastCall'.msg.hubRid \in abandonedGets) =>
             lastCall'.cb = <<>>]_vars
    /\ [][(ConnectStep \/ LoopStep) =>
             (lastCall'.pub = <<>> /\ ridLog' = ridLog)]_vars

\* C5: a status-200 twin response carrying a $rid that is not the id of the
\* pending GET (the id of a PATCH, say) neither invokes onTwinReceived nor
\* clears the pending GET.
C5_RidCorrelation ==
    [][(/\ Twin200Step
        /\ twinGetPending
        /\ lastCall'.msg.hubRid # 0
        /\ lastCall'.msg.hubRid \notin openGets
        /\ lastCall'.msg.hubRid \notin abandonedGets) =>
          (lastCall'.cb = <<>> /\ twinGetPending')]_vars

\* C6: whenever a call has made a CONNECT attempt, the SAS token it sent as
\* password was not expired: now < expiryEpoch.
C6_TokenFreshAtConnect ==
    lastCall.tries # <<>> => now < sasExpiry

\* C7: the ids of the twin requests of a session, GET and PATCH alike, start
\* at 1 and strictly increase, so no two requests carry the same $rid.
C7_IdsStrictlyIncrease ==
    /\ \A i, j \in 1..Len(ridLog) : i < j => ridLog[i] < ridLog[j]
    /\ (ridLog # <<>> => ridLog[1] = 1)
    /\ (lastCall.pub # <<>> =>
           /\ lastCall.pub[1].rid = ridLog[Len(ridLog)]
           /\ lastCall.pub[1].rid = twinRequestId)

\* C7 witness: a PATCH published after a GET that is still open, as the third
\* request of the session
C7_Witness ==
    /\ Len(ridLog) = 3
    /\ lastCall.pub # <<>>
    /\ lastCall.pub[1].kind = "PATCH"
    /\ openGets # {}

\* C8: at the integer limit the request-id counter wraps: the request made
\* with the counter at INT_MAX completes, without a crash, with the wrapped
\* value as its id.
C8_WrapsAtLimit ==
    [][(/\ lastCall'.op \in {"requestTwin", "updateReported"}
        /\ azureIoTIsConnected(isConnected, mqttConnected)
        /\ twinRequestId = IntMax) =>
          /\ ~crashed'
          /\ twinRequestId' = IntMin
          /\ lastCall'.pub # <<>>
          /\ lastCall'.pub[1].rid = IntMin]_vars

\* the topic holds the literal somewhere / begins with the literal
Contains(topic, lit) ==
    \E i \in 1..(Len(topic) - Len(lit) + 1) :
        SubSeq(topic, i, i + Len(lit) - 1) = lit
StartsWith(topic, lit) ==
    Len(topic) >= Len(lit) /\ SubSeq(topic, 1, Len(lit)) = lit

\* the kind of a topic by the priority order of the topic router
KindByPriority(topic) ==
    IF Contains(topic, C2D_MARK) THEN "c2d"
    ELSE IF StartsWith(topic, TWIN_RES_PREFIX) THEN "twin"
    ELSE IF StartsWith(topic, DESIRED_PREFIX) THEN "desired"
    ELSE "unknown"

\* C9: every inbound topic is routed to exactly one kind by the priority
\* order devicebound marker, twin response prefix, desired patch prefix,
\* unclassified; at most one callback is invoked per message, and it is the
\* one of that kind.
C9_RoutePriority ==
    (lastCall.op = "mqttLoop" /\ lastCall.msg # NoMsg) =>
        /\ lastCall.route = KindByPriority(TopicOf(lastCall.msg))
        /\ Len(lastCall.cb) <= 1
        /\ \A i \in 1..Len(lastCall.cb) : lastCall.cb[i].fn = lastCall.route

\* C9 witness: a topic that starts with the twin response prefix and holds
\* the devicebound marker was handed to onC2DMessage
C9_Witness ==
    /\ lastCall.op = "mqttLoop"
    /\ lastCall.msg.hubKind = "twin"
    /\ lastCall.msg.marked
    /\ lastCall.cb = <<[fn |-> "c2d", arg |-> 0]>>

\* C10: the version handed to onDesiredProperties is the integer the hub
\* wrote after $version= in the topic, and 0 when the topic has no $version=.
C10_DesiredVersion ==
    (lastCall.op = "mqttLoop" /\ lastCall.route = "desired"
        /\ lastCall.cb # <<>>) =>
        /\ lastCall.cb[1].fn = "desired"
        /\ lastCall.cb[1].arg = IF lastCall.msg.hubVersion >= 0
                                THEN lastCall.msg.hubVersion ELSE 0

\* C10 witness: onDesiredProperties was handed version 12
C10_Witness ==
    /\ lastCall.op = "mqttLoop"
    /\ lastCall.msg.hubVersion = 12
    /\ lastCall.cb = <<[fn |-> "desired", arg |-> 12]>>

\* C11: an inbound message whose topic is unclassified is dropped: no
\* callback is invoked, the connection state, the request-id counter and the
\* pending-GET state are unchanged, and the program goes on to its next call.
C11_UnclassifiedDropped ==
    [][(DeliveryStep /\ lastCall'.msg # NoMsg
        /\ KindByPriority(TopicOf(lastCall'.msg)) = "unknown") =>
          /\ lastCall'.route = "unknown"
          /\ lastCall'.cb = <<>>
          /\ UNCHANGED <<isConnected, mqttConnected, twinRequestId,
                         twinGetPending>>
          /\ ~crashed'
          /\ pc' = "app"
      ]_vars

\* C11 witness: a direct-method topic was dropped while a twin GET was
\* pending and all three callbacks were registered
C11_Witness ==
    /\ lastCall.op = "mqttLoop"
    /\ lastCall.msg.hubKind = "methods"
    /\ lastCall.route = "unknown"
    /\ twinGetPending
    /\ twinReceivedCallback
    /\ azureIoTIsConnected(isConnected, mqttConnected)

\* the call made a CONNECT attempt that the hub accepted
ConnectAccepted(call) ==
    call.tries # <<>> /\ call.tries[Len(call.tries)] = TRUE

\* C12: after every successful CONNECT, in connect() and in the reconnect of
\* loop(), all three subscriptions (the C2D filter, $iothub/twin/res/# and
\* $iothub/twin/PATCH/properties/desired/#) are attempted, also after one of
\* them failed, and the call succeeds with the session connected whatever
\* subset of them failed.
C12_SubscribesAll ==
    [][((ConnectStep \/ LoopStep) /\ ConnectAccepted(lastCall')) =>
          /\ lastCall'.subsTried = 3
          /\ lastCall'.ok
          /\ azureIoTIsConnected(isConnected', mqttConnected')
      ]_vars

\* C12 witness: the reconnect of loop() succeeded although a subscription
\* failed
C12_Witness ==
    /\ lastCall.op = "loop"
    /\ ConnectAccepted(lastCall)
    /\ lastCall.subsTried = 3
    /\ ~lastCall.subOk
    /\ isConnected


\* the step is a call of azureIoTInit()
InitStep == lastCall'.op = "init"

\* C13: while the session is uninitialized, a call of azureIoTInit() that
\* fails (a field missing or too long, a key that does not decode, the HMAC
\* context, both TLS probes) leaves it uninitialized, and a call that printed
\* an error failed; azureIoTConnect() fails without a CONNECT attempt or a
\* subscription; azureIoTLoop() changes nothing and hands nothing over; no
\* step publishes a twin request or telemetry (lastCall.pub, lastCall.sent)
\* or subscribes, and only azureIoTInit() can end the state
C13_FailedInitStaysUninitialized ==
    [][~isInitialized =>
          /\ (InitStep /\ lastCall'.err # <<>> => ~lastCall'.ok)
          /\ (InitStep /\ ~lastCall'.ok => ~isInitialized')
          /\ (~InitStep => ~isInitialized')
          /\ (ConnectStep => /\ ~lastCall'.ok
                             /\ lastCall'.tries = <<>>
                             /\ UNCHANGED <<progVars, cbVars, envVars>>)
          /\ (LoopStep => /\ lastCall'.tries = <<>>
                          /\ pc' = "app"
                          /\ UNCHANGED <<progVars, cbVars, mqttConnected>>)
          /\ ~DeliveryStep
          /\ lastCall'.pub = <<>>
          /\ lastCall'.sent = <<>>
          /\ lastCall'.subsTried = 0
          /\ ~isConnected' /\ ~mqttConnected']_vars

\* azureIoTConnect() refused on a session whose azureIoTInit() failed at the
\* TLS probes (only azureIoTInit() sets tlsInsecure)
C13_Witness ==
    /\ ~isInitialized
    /\ tlsInsecure
    /\ sasToken # <<>>
    /\ lastCall.op = "connect"
    /\ ~lastCall.ok


\* C14: in a build that disables the fallback, a call of azureIoTInit() whose
\* certificate-validated probe fails returns failure, and makes no
\* unvalidated TLS connection attempt
C14_FallbackCanBeDisabled ==
    [][(/\ InitStep
        /\ ~allowInsecureFallback
        /\ lastCall'.probes # <<>>
        /\ ~lastCall'.probes[1].ok)
       => /\ ~lastCall'.ok
          /\ \A i \in DOMAIN lastCall'.probes :
                lastCall'.probes[i].mode # "unvalidated"]_vars


(***************************************************************************)
(* The connection string read as a list of key=value pairs                  *)
(***************************************************************************)
\* the names of the three credential fields, in the order of the buffers
FieldNames == <<"HostName", "DeviceId", "SharedAccessKey">>
FieldKeys == <<HOSTNAME_KEY, DEVICEID_KEY, SHAREDKEY_KEY>>
\* the longest value each field can hold
FieldCapacity == <<HostnameSize - 1, DeviceIdSize - 1, DeviceKeySize - 1>>

\* the pairs of a connection string: the texts between its semicolons, each
\* with the position at which it starts
PairsOf(text) ==
    LET seps == {i \in 1..Len(text) : text[i] = ";"}
        starts == {1} \cup {i + 1 : i \in seps}
        EndOf(b) == LET after == {i \in seps : i >= b}
                    IN IF after = {} THEN Len(text)
                       ELSE (CHOOSE i \in after : \A j \in after : i <= j) - 1
    IN {[start |-> b, pair |-> SubSeq(text, b, EndOf(b))] : b \in starts}

\* the values given to the key `key` (the key's text with its "=") by the
\* pairs of a connection string, one for each pair that has the key
ValuesOf(text, key) ==
    {[start |-> p.start, value |-> SubSeq(p.pair, Len(key) + 1, Len(p.pair))] :
        p \in {q \in PairsOf(text) :
                  /\ Len(q.pair) >= Len(key)
                  /\ SubSeq(q.pair, 1, Len(key)) = key}}

\* for each connection string and each of the three fields: how many pairs
\* have the key, and the value of one of them
PairsTable ==
    [c \in ConnStrings |->
        [f \in 1..3 |->
            LET found == ValuesOf(c, FieldKeys[f]) IN
            [count |-> Cardinality(found),
             value |-> IF found = {} THEN <<>>
                       ELSE (CHOOSE v \in found : TRUE).value]]] @@ <<>>

\* the call of azureIoTInit() failed in parseConnectionString()
ParseFailed(call) ==
    /\ call.err # <<>>
    /\ call.err[2] \in {"not found", "too long"}

\* the three credential buffers
Buffers(host, dev, key) == <<host, dev, key>>

\* C15: a call of azureIoTInit() on a connection string in which each of the
\* three keys is the key of exactly one pair, its value not empty and within
\* the capacity, leaves the three values of these pairs in the buffers
\* whatever the order and the other pairs; on a string in which one of the
\* three keys is the key of no pair, it fails with the error naming a field
\* that is missing
C15_ParseRecoversFields ==
    [][InitStep =>
          LET ref == PairsTable[connStr] IN
          /\ (\A f \in 1..3 : /\ ref[f].count = 1
                              /\ ref[f].value # <<>>
                              /\ Len(ref[f].value) <= FieldCapacity[f])
             => /\ ~ParseFailed(lastCall')
                /\ Buffers(iotHubHostname', deviceId', deviceKey')
                       = <<ref[1].value, ref[2].value, ref[3].value>>
          /\ (\E f \in 1..3 : ref[f].count = 0)
             => /\ ParseFailed(lastCall')
                /\ \E f \in 1..3 : /\ ref[f].count = 0
                                   /\ lastCall'.err
                                          = <<FieldNames[f], "not found">>]_vars

\* C16: a call of azureIoTInit() on a connection string in which a pair of
\* one of the three keys has a value longer than the capacity fails with the
\* error naming such a field as too long; and the buffers never hold
\* anything but the whole value of a pair of their key
C16_FieldTooLongRejected ==
    [][InitStep =>
          LET ref == PairsTable[connStr] IN
          /\ (/\ \A f \in 1..3 : ref[f].count = 1
              /\ \E f \in 1..3 : Len(ref[f].value) > FieldCapacity[f])
             => /\ ParseFailed(lastCall')
                /\ \E f \in 1..3 : /\ Len(ref[f].value) > FieldCapacity[f]
                                   /\ lastCall'.err
                                          = <<FieldNames[f], "too long">>
          /\ \A f \in 1..3 :
                Buffers(iotHubHostname', deviceId', deviceKey')[f]
                    \in {<<>>} \cup {v.value : v \in ValuesOf(connStr, FieldKeys[f])}]_vars

\* C17: after a call of azureIoTInit() that did not fail in
\* parseConnectionString(), none of the three buffers is empty
C17_ParsedFieldsNonEmpty ==
    [][(InitStep /\ ~ParseFailed(lastCall'))
       => \A f \in 1..3 :
             Buffers(iotHubHostname', deviceId', deviceKey')[f] # <<>>]_vars


(***************************************************************************)
(* Percent-encoding and decoding of RFC 3986                                *)
(***************************************************************************)
\* the unreserved set [A-Za-z0-9-_.~]
Unreserved ==
    {"A","B","C","D","E","F","G","H","I","J","K","L","M","N","O","P","Q","R","S","T","U","V","W","X","Y","Z"}
    \cup {"a","b","c","d","e","f","g","h","i","j","k","l","m","n","o","p","q","r","s","t","u","v","w","x","y","z"}
    \cup {"0","1","2","3","4","5","6","7","8","9"}
    \cup {"-", "_", ".", "~"}

UpperHex == <<"0","1","2","3","4","5","6","7","8","9","A","B","C","D","E","F">>

\* the percent-encoding of a text: an unreserved byte as it is, any other
\* byte as "%" and its two uppercase hexadecimal digits
PercentEncode(text) ==
    Join(SubSeq([i \in 1..Len(text) |->
                       IF text[i] \in Unreserved THEN <<text[i]>>
                       ELSE <<"%", UpperHex[(CharCode(text[i]) \div 16) + 1],
                              UpperHex[(CharCode(text[i]) % 16) + 1]>>],
                   1, Len(text)))

\* the byte with code n
CharOfCode(n) ==
    IF n = 233 THEN HIGH_BYTE ELSE IF n = 10 THEN "\n" ELSE Printable[n - 31]

HexValue(h) == (CHOOSE i \in 1..16 : UpperHex[i] = h) - 1

\* the decoding of a percent-encoded text: "%" and the two digits after it
\* give one byte, any other character gives itself
PercentDecode(text) ==
    LET n == Len(text)
        escapes == {i \in 1..(n - 2) : text[i] = "%"}
        kept == {i \in 1..n : i - 1 \notin escapes /\ i - 2 \notin escapes}
        rank == SubSeq([i \in 1..n |-> Cardinality(kept \cap 1..i)], 1, n)
        size == Cardinality(kept)
        decoded == [k \in 1..size |->
                       LET i == CHOOSE i \in kept : rank[i] = k IN
                       IF i \in escapes
                       THEN CharOfCode(16 * HexValue(text[i + 1])
                                       + HexValue(text[i + 2]))
                       ELSE text[i]]
    IN SubSeq(decoded, 1, size)

\* the runs of generateSasToken() of SasTable, and the encoding and decoding
\* of the texts they encode
SasRuns == {SasTable[x] : x \in DOMAIN SasTable}

EncodeTable ==
    [u \in {g.resourceUri : g \in SasRuns}
           \cup {g.base64Signature : g \in SasRuns} |->
        PercentEncode(u)] @@ <<>>

DecodeTable ==
    [u \in {g.encodedUri : g \in SasRuns}
           \cup {g.encodedSignature : g \in SasRuns} |->
        PercentDecode(u)] @@ <<>>

\* the step is a call of azureIoTInit() in which generateSasToken() ran to
\* its end
GenerateStep == InitStep /\ lastCall'.sas # <<>>

\* C18: what generateSasToken() gets from urlEncode for the resource URI and
\* for the signature is the percent-encoding of the whole text
C18_EncodesWholeInput ==
    [][GenerateStep =>
          LET g == SasTable[connStr, lastCall'.sas[1].expiry] IN
          /\ sasToken' = g.sasToken
          /\ g.encodedUri = EncodeTable[g.resourceUri]
          /\ g.encodedSignature = EncodeTable[g.base64Signature]]_vars

\* C19: decoding what generateSasToken() gets from urlEncode gives the text
\* encoded
C19_EncodeRoundTrips ==
    [][GenerateStep =>
          LET g == SasTable[connStr, lastCall'.sas[1].expiry] IN
          /\ DecodeTable[g.encodedUri] = g.resourceUri
          /\ DecodeTable[g.encodedSignature] = g.base64Signature]_vars

\* the signing string of the example: h.example.net / dev1 / 1700000000
EXAMPLE_SIGNING ==
    <<"h",".","e","x","a","m","p","l","e",".","n","e","t","%","2","F",
      "d","e","v","i","c","e","s","%","2","F","d","e","v","1","\n",
      "1","7","0","0","0","0","0","0","0","0">>

\* C20: in a call of azureIoTInit() that generates the token, the text signed
\* is the percent-encoding of "<hostname>/devices/<device id>", a newline
\* and the decimal expiry; sasToken is "SharedAccessSignature sr=", the
\* encoded URI, "&sig=", the percent-encoding of the base64 signature,
\* "&se=" and the expiry; a token generated again from the same buffers and
\* expiry is the same text; and the example gives the signing string of the
\* claim
C20_SasDeterministic ==
    [][GenerateStep =>
          LET g == SasTable[connStr, lastCall'.sas[1].expiry] IN
          /\ g.signatureString
                 = EncodeTable[iotHubHostname' \o DEVICES_PATH \o deviceId']
                       \o <<"\n">> \o Dec(g.expiry)
          /\ sasToken' = SAS_PREFIX \o g.encodedUri \o SIG_PARAM
                             \o EncodeTable[g.base64Signature] \o SE_PARAM
                             \o Dec(g.expiry)
          /\ (/\ sasToken # <<>>
              /\ sasExpiry = g.expiry
              /\ <<iotHubHostname, deviceId, deviceKey>>
                     = <<iotHubHostname', deviceId', deviceKey'>>)
             => sasToken' = sasToken
          /\ generateSasToken(HOST_VALUE, DEVICE_VALUE, KEY_VALUE,
                              1700000000).signatureString = EXAMPLE_SIGNING]_vars

\* the step is a call of azureIoTSendTelemetry()
TelemetryStep == lastCall'.op = "sendTelemetry"

\* C21: one sendTelemetry() hands at most one publish to the transport and
\* returns the result of that publish, a failed publish being neither
\* repeated nor remembered; on a session that is not connected it returns
\* failure and hands nothing to the transport. It changes no state.
C21_TelemetryFireAndForget ==
    [][TelemetryStep =>
          /\ Len(lastCall'.sent) <= 1
          /\ (azureIoTIsConnected(isConnected, mqttConnected) =>
                 /\ Len(lastCall'.sent) = 1
                 /\ lastCall'.ok = lastCall'.sent[1].ok)
          /\ (~azureIoTIsConnected(isConnected, mqttConnected) =>
                 /\ lastCall'.sent = <<>>
                 /\ ~lastCall'.ok)
          /\ lastCall'.pub = <<>>
          /\ UNCHANGED <<progVars, cbVars, envVars, histVars>>]_vars

\* C21 witness: a sendTelemetry() on a connected session returned the
\* failure of its one publish
C21_Witness ==
    /\ lastCall.op = "sendTelemetry"
    /\ Len(lastCall.sent) = 1
    /\ ~lastCall.sent[1].ok
    /\ ~lastCall.ok
    /\ isConnected /\ mqttConnected

\* the callbacks a step invoked
Invoked(call) == call.cb # <<>>

\* C22: a callback is invoked only by the mqttClient.loop() of a loop() call
\* that is in progress, for the message that this mqttClient.loop() read and
\* before loop() returns, so that the callbacks follow the order of the
\* deliveries; init(), connect(), sendTelemetry(), requestTwin(),
\* updateReportedProperties() and the reconnect of loop() invoke none.
C22_CallbacksOnlyInLoop ==
    /\ [][Invoked(lastCall') =>
             /\ pc = "mqttLoop"
             /\ DeliveryStep
             /\ lastCall'.msg # NoMsg
             /\ Len(lastCall'.cb) = 1
             /\ lastCall'.cb[1].fn = lastCall'.route
             /\ pc' = "app"]_vars
    /\ [](lastCall.op \in {"init", "connect", "sendTelemetry", "requestTwin",
                           "updateReported", "loop"} => ~Invoked(lastCall))

\* C22 witness: onTwinReceived was invoked by the mqttClient.loop() of a
\* loop() call
C22_Witness ==
    /\ lastCall.op = "mqttLoop"
    /\ Invoked(lastCall)
    /\ lastCall.cb[1].fn = "twin"
    /\ pc = "app"

\* the step delivers the hub's answer to a GET that was sent and is neither
\* answered nor abandoned: status 200, or an error status (204 answers a
\* PATCH)
GetAnswerStep ==
    /\ DeliveryStep
    /\ lastCall'.msg.hubKind = "twin"
    /\ ~lastCall'.msg.marked
    /\ lastCall'.msg.hubStatus # 204
    /\ lastCall'.msg.hubRid \in openGets

\* C23: a pending GET whose response is delivered, with status 200 or with
\* an error status, is no longer pending afterwards.
C23_AnsweredGetNotPending ==
    [][(GetAnswerStep /\ twinGetPending) => ~twinGetPending']_vars

\* the step is a call of azureIoTUpdateReportedProperties()
PatchStep == lastCall'.op = "updateReported"

\* the step delivers the hub's status-204 answer to a PATCH
Patch204Step ==
    /\ DeliveryStep
    /\ lastCall'.msg.hubKind = "twin"
    /\ lastCall'.msg.hubStatus = 204
    /\ ~lastCall'.msg.marked

TwinResponseStep == DeliveryStep /\ lastCall'.route = "twin"

\* the step invoked onTwinReceived
TwinReceivedInvoked(call) == \E i \in 1..Len(call.cb) : call.cb[i].fn = "twin"

\* C25: for an inbound twin response, onTwinReceived (when one is
\* registered) is invoked exactly when the status is 200 and a GET is pending
\* at that moment, and the pending GET is cleared then; a status-200 response
\* that finds no GET pending invokes no callback and changes no state of the
\* session. The pending state is set again only by a requestTwin() that
\* published, so that one GET never gives two invocations.
C25_TwinReceivedOncePerGet ==
    /\ [][TwinResponseStep =>
             /\ TwinReceivedInvoked(lastCall')
                    <=> (/\ lastCall'.status = 200
                         /\ twinGetPending
                         /\ twinReceivedCallback)
             /\ (lastCall'.status = 200 /\ twinGetPending => ~twinGetPending')
             /\ (lastCall'.status = 200 /\ ~twinGetPending =>
                    /\ lastCall'.cb = <<>>
                    /\ UNCHANGED <<progVars, cbVars, mqttConnected>>)]_vars
    /\ [][TwinReceivedInvoked(lastCall') => TwinResponseStep]_vars
    /\ [][(~twinGetPending /\ twinGetPending') =>
             /\ lastCall'.op = "requestTwin"
             /\ lastCall'.pub # <<>>
             /\ lastCall'.pub[1].ok]_vars

\* C25 witness: a status-200 response to the one request of the session
\* arrived while no GET was pending, and invoked no callback
C25_Witness ==
    /\ lastCall.op = "mqttLoop"
    /\ lastCall.route = "twin"
    /\ lastCall.status = 200
    /\ lastCall.msg.hubRid = 1
    /\ lastCall.cb = <<>>
    /\ twinReceivedCallback
    /\ ~twinGetPending
    /\ ridLog = <<1>>
    /\ openGets = {}

\* C26: every MQTT CONNECT attempt of connect() and of loop() is made over a
\* transport that validates the hub certificate, also after an init whose
\* validated probe failed and whose unvalidated probe succeeded.
C26_ConnectValidated ==
    (lastCall.op \in {"connect", "loop"} /\ lastCall.tries # <<>>)
        => ~tlsInsecure

\* C27: isConnected() stays true, once a connect succeeded, for as long as
\* the transport is connected, whatever calls follow; in particular
\* connect() on a connected session returns success and leaves
\* isConnected() true.
C27_ConnectedIsAuthoritative ==
    /\ [][(/\ azureIoTIsConnected(isConnected, mqttConnected)
           /\ mqttConnected') =>
             azureIoTIsConnected(isConnected', mqttConnected')]_vars
    /\ [][(ConnectStep /\ azureIoTIsConnected(isConnected, mqttConnected)) =>
             /\ lastCall'.ok
             /\ azureIoTIsConnected(isConnected', mqttConnected')]_vars

\* the step is a call of azureIoTRequestTwin() whose publish failed
FailedGetStep ==
    /\ lastCall'.op = "requestTwin"
    /\ lastCall'.pub # <<>>
    /\ ~lastCall'.pub[1].ok

\* C28: a requestTwin() whose publish fails consumes an id and changes
\* nothing else: no GET becomes pending by it, and a GET that was pending
\* stays pending.
C28_FailedGetKeepsPending ==
    [][FailedGetStep =>
          /\ twinGetPending' = twinGetPending
          /\ twinRequestId' = lastCall'.pub[1].rid
          /\ UNCHANGED <<isInitialized, isConnected, mqttConnected, openGets,
                         abandonedGets>>]_vars

\* the step is a call of azureIoTRequestTwin() or of
\* azureIoTUpdateReportedProperties()
TwinRequestStep == lastCall'.op \in {"requestTwin", "updateReported"}

\* C29: requestTwin() and updateReportedProperties() called while
\* isConnected() is false publish nothing, consume no request id and leave
\* the pending state of the GET, and all the rest of the session, unchanged.
C29_OfflineRequestsDoNothing ==
    [][(TwinRequestStep /\ ~azureIoTIsConnected(isConnected, mqttConnected))
          =>
          /\ lastCall'.pub = <<>>
          /\ lastCall'.sent = <<>>
          /\ ~lastCall'.ok
          /\ UNCHANGED <<progVars, cbVars, envVars, histVars>>]_vars

\* C29 witness: requestTwin() was called after the transport dropped, with
\* a GET pending and the counter at 1, and published nothing
C29_Witness ==
    /\ lastCall.op = "requestTwin"
    /\ lastCall.pub = <<>>
    /\ isConnected /\ ~mqttConnected
    /\ twinGetPending
    /\ twinRequestId = 1
    /\ ridLog = <<1>>
    /\ ~crashed

\* what a failing azureIoTInit() can name as the cause
InitFailures == {"HostName", "DeviceId", "SharedAccessKey", "HMAC", "TLS"}

ProbesPassed(probes) ==
    \/ probes = <<Probe("validated", TRUE)>>
    \/ probes = <<Probe("validated", FALSE), Probe("unvalidated", TRUE)>>

\* C31: azureIoTInit() returns true exactly when the connection string
\* parsed, the SAS token was generated, and the validated TLS probe succeeded
\* or, after it failed, the unvalidated probe succeeded; the first probe of a
\* call is the validated one, an unvalidated probe is made only right after a
\* validated probe that failed, and no probe is made before the token is
\* generated; a call that returns true leaves the session initialized, and
\* the session goes from uninitialized to initialized only in such a call.
C31_InitSucceedsExactlyWhen ==
    [][/\ InitStep =>
            /\ lastCall'.ok <=> /\ parsed.ok
                                /\ lastCall'.sas # <<>>
                                /\ ProbesPassed(lastCall'.probes)
            /\ lastCall'.probes # <<>> =>
                   /\ lastCall'.sas # <<>>
                   /\ lastCall'.probes[1].mode = "validated"
            /\ \A i \in DOMAIN lastCall'.probes :
                   lastCall'.probes[i].mode = "unvalidated" =>
                       /\ i > 1
                       /\ lastCall'.probes[i - 1] = Probe("validated", FALSE)
            /\ lastCall'.ok => isInitialized'
       /\ (~isInitialized /\ isInitialized') => (InitStep /\ lastCall'.ok)]_vars

\* C31 witness: a call of azureIoTInit() whose validated probe failed and
\* whose unvalidated probe succeeded has initialized the session
C31_Witness ==
    /\ lastCall.op = "init"
    /\ lastCall.ok
    /\ lastCall.probes = <<Probe("validated", FALSE),
                           Probe("unvalidated", TRUE)>>
    /\ isInitialized
    /\ tlsInsecure
    /\ ~isConnected


\* main.cpp is connected and knows it: the session is up, and the last
\* hasMqtt = azureIoTIsConnected() of loop() found it so
AppConnected ==
    /\ hasMqtt
    /\ tick.hasMqtt
    /\ azureIoTIsConnected(isConnected, mqttConnected)

\* C32: under main.cpp, once azureIoTInit() has succeeded (which needs WiFi)
\* and the transport accepts every CONNECT attempt, main.cpp gets connected
\* again and loop() sets hasMqtt, whether the setup-time connect failed or
\* the connection was lost later, at any point of setup() or loop(); no
\* pass of loop() makes more than 5 CONNECT attempts; and a pass of loop()
\* publishes telemetry only if its azureIoTIsConnected() returned true.
C32_AppReconnects ==
    /\ (hubAccepts /\ isInitialized) ~> AppConnected
    /\ [](tick.attempts <= 5)
    /\ [](tick.published => tick.hasMqtt)

\* C32 witness: the setup-time connect failed, a later connection was lost,
\* and a pass of loop() reconnected with one CONNECT attempt, found
\* azureIoTIsConnected() true and published telemetry
C32_Witness ==
    /\ isInitialized
    /\ issued = {}
    /\ drops > 0
    /\ hubAccepts
    /\ tick.attempts = 1
    /\ tick.hasMqtt
    /\ tick.published
    /\ hasMqtt
    /\ appPc = "loop"


\* C33: under main.cpp, once the device is connected to the hub,
\* azureIoTRequestTwin() and azureIoTUpdateReportedProperties() are called,
\* also when the connection was made by azureIoTLoop() after the setup-time
\* azureIoTConnect() had failed
C33_InitialTwinAfterFirstConnect ==
    azureIoTIsConnected(isConnected, mqttConnected)
        ~> (issued = {"requestTwin", "updateReported"})

====
